---- MODULE Spec2Model ----
(***************************************************************************)
(* A model of the Go client library ragclient (auto-coder.rag SDK):        *)
(* client construction, the buffered Query, the streaming producers        *)
(* QueryStream / QueryStreamMessages with their channels, the aggregating  *)
(* consumer QueryCollectMessages, the argument vector and environment a    *)
(* call builds, and the stderr-draining task of QueryStream.               *)
(*                                                                         *)
(* The combined output Query captures is a sequence of one-character      *)
(* strings, so that strings.TrimSpace can be computed on it; JSON strings, *)
(* event types, map keys and error messages are TLA+ strings.              *)
(***************************************************************************)
EXTENDS Integers, Sequences, FiniteSets, TLC

VARIABLES
    \* ---- streaming call (QueryStream / QueryStreamMessages) ----
    op,             \* which producer runs: "QueryStream" or "QueryStreamMessages"
    consumer,       \* who reads the channels: "Caller" or "QueryCollectMessages"
    pc,             \* position of the producer goroutine
    procState,      \* subprocess: "none", "running", "exited"
    exitStatus,     \* exit code the operating system reports once exited
    written,        \* lines the subprocess has written to standard output
    scanned,        \* number of lines the bufio.Scanner has returned
    ProcessState,   \* execCmd.ProcessState: [set |-> FALSE] or [set |-> TRUE, ExitCode |-> n]
    readErr,        \* scanner.Err() # nil was observed
    resultChan,     \* buffered contents of resultChan / messageChan
    errorChan,      \* buffered contents of errorChan
    resultCloses,   \* number of close(resultChan) executed
    errorCloses,    \* number of close(errorChan) executed
    errSent,        \* history: every error sent on errorChan, in order
    errSendBlocked, \* a send on errorChan found the buffer full
    sentAtReadErr,  \* history: number of values published when the read error hit
    received,       \* history: values taken from the result channel, in order
    gotErr,         \* errors the caller took from errorChan
    \* ---- QueryCollectMessages locals and return values ----
    cpc,            \* "select" while in the loop, "returned" afterwards
    contentParts,
    contexts,
    metadata,
    tokensInfo,
    response,
    retErr,
    \* ---- client construction and buffered Query ----
    fsDocDir,       \* what os.Stat finds at config.DocDir
    config,         \* the RAGConfig handed to NewRAGClientWithConfig
    client,         \* [nil |-> TRUE] or [nil |-> FALSE, config |-> ...]
    newErr,         \* error returned by the constructor
    options,        \* per-call *RAGQueryOptions of Query
    qpc,            \* position inside Query
    qTimeout,       \* resolved timeout (seconds)
    clock,          \* seconds elapsed since context.WithTimeout
    qProc,          \* subprocess of Query: "none", "running", "exited", "killed"
    qExit,          \* exit code of that subprocess
    qOutput,        \* combined stdout+stderr captured so far
    qStart,         \* outcome of launching it: "none", "failed", "ok"
    qExpired,       \* history: the deadline took effect while the subprocess had not exited
    qAnswer,        \* first return value of Query
    qErr,           \* second return value of Query
    spawned,        \* number of subprocesses started so far
    \* ---- the command a call builds ----
    argv,           \* argument vector handed to exec.Command / exec.CommandContext
    envp,           \* execCmd.Env: the set of <<key, value>> pairs
    goos,           \* runtime.GOOS of the build
    qDeadline,      \* context of Query: "none" until context.WithTimeout, then "armed"
    \* ---- standard error of a streaming subprocess ----
    stderrWritten,  \* characters the subprocess has written to standard error
    drainBuf,       \* what io.ReadAll(stderr) has read so far
    stderrOutput,   \* the variable stderrOutput shared by the drain task and the producer
    drain,          \* drain task: "none", "reading", "done"
    stderrClosed,   \* execCmd.Wait() has closed the read side of the stderr pipe
    \* ---- standard input of a streaming subprocess, and its reaping ----
    stdinWriter,    \* the task writing the question: "none", "writing", "done"
    stdinLeft,      \* pieces of the question not yet written to the stdin pipe
    stdinPipe,      \* pieces in the stdin pipe the subprocess has not read
    waited,         \* execCmd.Wait() has been called on the subprocess
    \* ---- QueryWithBuffer ----
    bufpc,          \* "idle", "select", "returned"
    buffer,         \* the strings.Builder: the pieces written so far
    bufErr,         \* the error QueryWithBuffer returned
    \* ---- a Message serialized and parsed back ----
    rtpc,           \* "idle", "built", "serialized", "parsed"
    rtMsg,          \* the message ToJSON is called on
    rtLine,         \* the string ToJSON returned
    rtBack,         \* what FromJSON made of it on a fresh Message
    \* ---- CountTokens ----
    ctpc,           \* "idle", "call", "running", "returned"
    ctOptions,      \* the caller's *TokenCountOptions
    ctTimeout,      \* seconds of the context deadline
    ctArgv,         \* the command line of the counting subprocess
    ctEnv,          \* execCmd.Env
    ctProc,         \* "none", "running", "exited", "killed"
    ctExit,         \* its exit code
    ctOutput,       \* its combined output
    ctResult,       \* the *TokenCountResult returned
    ctErr,          \* the error returned
    \* ---- NewRAGClientFromText / NewRAGClientFromTexts ----
    tpc,            \* "idle", "call", "returned"
    tCall,          \* the constructor called and its arguments
    tDirs,          \* directories created
    tFiles,         \* content of each file written, by path
    tWrites,        \* the paths written, in order
    tClient,        \* the *RAGClient returned
    tErr,           \* the error returned
    \* ---- several calls on one client at once ----
    kCalls,         \* per call: its kind, where its producer and its caller are,
                    \* what the caller has received
    kProcs,         \* per subprocess: its state, what it has written, its exit code
    kChans          \* per channel pair: the values held and whether each is closed

streamVars == <<op, consumer, pc, procState, exitStatus, written, scanned,
                ProcessState, readErr, resultChan, errorChan, resultCloses,
                errorCloses, errSent, errSendBlocked, sentAtReadErr, received, gotErr>>
collectVars == <<cpc, contentParts, contexts, metadata, tokensInfo, response, retErr>>
queryVars == <<fsDocDir, config, client, newErr, options, qpc, qTimeout, clock,
               qProc, qExit, qOutput, qStart, qExpired, qAnswer, qErr>>
launchVars == <<argv, envp, goos, qDeadline>>
stderrVars == <<stderrWritten, drainBuf, stderrOutput, drain, stderrClosed>>
procVars == <<stdinWriter, stdinLeft, stdinPipe, waited>>
bufVars == <<bufpc, buffer, bufErr>>
rtVars == <<rtpc, rtMsg, rtLine, rtBack>>
ctVars == <<ctpc, ctOptions, ctTimeout, ctArgv, ctEnv, ctProc, ctExit, ctOutput,
           ctResult, ctErr>>
textVars == <<tpc, tCall, tDirs, tFiles, tWrites, tClient, tErr>>
concVars == <<kCalls, kProcs, kChans>>
restVars == <<bufVars, rtVars, ctVars, textVars, concVars>>
vars == <<streamVars, collectVars, queryVars, spawned, launchVars, stderrVars,
          procVars, restVars>>

-----------------------------------------------------------------------------
(* Bounds of the model *)

MaxLines == 3        \* lines a subprocess writes to standard output
ChanCap == 2         \* capacity of the result channel (100 in the code)
MaxOutput == 2       \* characters of combined output Query captures
MaxClock == 2        \* seconds the clock of Query advances
MaxStderr == 2       \* characters a streaming subprocess writes to standard error
QuestionLen == 2     \* pieces the question is written to standard input in
StdinCap == 1        \* pieces the stdin pipe holds before a write blocks
PipeCap == 2         \* lines (characters) the stdout (stderr) pipe holds
MaxDocs == 2         \* documents handed to NewRAGClientFromTexts
NumCalls == 2        \* calls running at once on one client
MaxConcLines == 2    \* lines each of their subprocesses writes

(* Program constants *)

ErrChanCap == 1      \* make(chan error, 1)
DefaultTimeout == 300

-----------------------------------------------------------------------------
(* JSON values as encoding/json decodes them into interface{} *)

Str(s) == [t |-> "str", s |-> s]
Num(n) == [t |-> "num", n |-> n]
Obj(o) == [t |-> "obj", o |-> o]
Arr(a) == [t |-> "arr", a |-> a]
Null == [t |-> "null"]
EmptyMap == <<>>

Has(o, k) == k \in DOMAIN o
IsStr(o, k) == Has(o, k) /\ o[k].t = "str"
IsObj(o, k) == Has(o, k) /\ o[k].t = "obj"
IsArr(o, k) == Has(o, k) /\ o[k].t = "arr"
IsNum(o, k) == Has(o, k) /\ o[k].t = "num"

(* A line of standard output: pad spaces around a body that is empty,       *)
(* text that is not JSON, or the JSON text of a value.                      *)
EmptyBody == [t |-> "empty"]
TextBody == [t |-> "text"]
JsonBody(v) == [t |-> "json", v |-> v]
Line(pad, body) == [pad |-> pad, body |-> body]

\* strings.TrimSpace on a line
TrimSpace(line) == [line EXCEPT !.pad = 0]
\* line == ""
IsEmptyString(line) == line.pad = 0 /\ line.body.t = "empty"

-----------------------------------------------------------------------------
(* Error values (types.go): the three error kinds, and nil *)

Nil == [type |-> "nil"]
RAGError(msg) == [type |-> "RAGError", Message |-> msg]
ValidationError(msg) == [type |-> "ValidationError", Message |-> msg]
ExecutionError(msg, code) == [type |-> "ExecutionError", Message |-> msg, ExitCode |-> code]

-----------------------------------------------------------------------------
(* Message (types.go) *)

\* An instant is named by its RFC3339Nano text; Now names time.Now().
TS == "2024-01-01T00:00:00Z"
TS_Frac == "2024-01-01T00:00:00.5Z"
\* time.Now(): a value no input line carries
Now == "now"
NowSecond == "2026-01-01T00:00:00Z"
\* time.Parse(time.RFC3339, s) succeeds; a fractional second is accepted
ValidRFC3339(s) == s \in {TS, TS_Frac, NowSecond}
\* the instant t truncated to the second
Truncate(t) == CASE t = TS_Frac -> TS [] t = Now -> NowSecond [] OTHER -> t
\* t.Format(time.RFC3339): the layout has no fractional second
FormatRFC3339(t) == Truncate(t)

FromJSON_AcceptAnyObject(jsonStr) ==
    IF jsonStr.body.t # "json" \/ jsonStr.body.v.t # "obj"
    THEN [err |-> TRUE]
    ELSE LET data == jsonStr.body.v.o IN
         [err |-> FALSE,
          msg |-> [EventType |-> IF IsStr(data, "event_type") THEN data["event_type"].s ELSE "",
                   Timestamp |-> IF IsStr(data, "timestamp") /\ ValidRFC3339(data["timestamp"].s)
                                 THEN data["timestamp"].s ELSE Now,
                   Data |-> IF IsObj(data, "data") THEN data["data"].o ELSE EmptyMap,
                   RawJSON |-> jsonStr]]

\* Message.FromJSON: [err |-> TRUE], or [err |-> FALSE, msg |-> the filled Message]
FromJSON(jsonStr) ==
    IF jsonStr.body.t # "json" \/ jsonStr.body.v.t # "obj"
    THEN [err |-> TRUE]                      \* json.Unmarshal into a map fails
    ELSE LET data == jsonStr.body.v.o IN
         IF ~IsStr(data, "event_type")
         THEN [err |-> TRUE]                 \* errors.New("missing event_type")
         ELSE [err |-> FALSE,
               msg |-> [EventType |-> data["event_type"].s,
                        Timestamp |-> IF IsStr(data, "timestamp") /\ ValidRFC3339(data["timestamp"].s)
                                      THEN data["timestamp"].s ELSE Now,
                        Data |-> IF IsObj(data, "data") THEN data["data"].o ELSE EmptyMap,
                        RawJSON |-> jsonStr]]

\* a nil map[string]interface{}
NilData == [nil |-> TRUE]
\* the entries of a map that may be nil
Entries(d) == IF d = NilData THEN EmptyMap ELSE d

\* a serializer that writes the discriminator under "type"
ToJSON_TypeKey(m) ==
    Line(0, JsonBody(Obj([type |-> Str(m.EventType),
                          timestamp |-> Str(FormatRFC3339(m.Timestamp)),
                          data |-> IF m.Data = NilData THEN Null ELSE Obj(m.Data)])))

\* Message.ToJSON: json.Marshal of event_type, timestamp and data; a nil map
\* is marshalled as null
ToJSON(m) ==
    Line(0, JsonBody(Obj([event_type |-> Str(m.EventType),
                          timestamp |-> Str(FormatRFC3339(m.Timestamp)),
                          data |-> IF m.Data = NilData THEN Null ELSE Obj(m.Data)])))

IsContent_ByPayload(m) == Has(m.Data, "content")

IsContent(m) == m.EventType = "content"
IsContexts(m) == m.EventType = "contexts"
IsEnd(m) == m.EventType = "end"

GetContent(m) == IF IsStr(m.Data, "content") THEN m.Data["content"].s ELSE ""

GetContexts(m) ==
    IF IsArr(m.Data, "contexts")
    THEN LET a == m.Data["contexts"].a IN
         [i \in 1..Len(a) |-> IF a[i].t = "str" THEN a[i].s ELSE ""]
    ELSE <<>>

\* tokensData[k].(float64) converted with int(): 0 when absent or not a number
TokenField(tokensData, k) == IF IsNum(tokensData, k) THEN tokensData[k].n ELSE 0

\* *TokenInfo, or nil
GetTokens(m) ==
    IF IsObj(m.Data, "tokens")
    THEN [nil |-> FALSE,
          Input |-> TokenField(m.Data["tokens"].o, "input"),
          Generated |-> TokenField(m.Data["tokens"].o, "generated")]
    ELSE [nil |-> TRUE]

\* map[string]interface{}, or nil
GetMetadata(m) ==
    IF IsObj(m.Data, "metadata")
    THEN [nil |-> FALSE, m |-> m.Data["metadata"].o]
    ELSE [nil |-> TRUE]

-----------------------------------------------------------------------------
(* The lines a subprocess may write *)

Event(pad, type, ts, data) ==
    Line(pad, JsonBody(Obj([event_type |-> Str(type), timestamp |-> Str(ts), data |-> Obj(data)])))
Tokens(i, g) == Obj([input |-> Num(i), generated |-> Num(g)])

L_Blank == Line(0, EmptyBody)
L_Spaces == Line(1, EmptyBody)
L_Text == Line(0, TextBody)
L_NoEvent == Line(0, JsonBody(Obj([data |-> Obj([content |-> Str("z")])])))
L_ContentA == Event(1, "content", TS, [content |-> Str("a")])
L_ContentB == Event(0, "content", TS, [content |-> Str("b"), tokens |-> Tokens(1, 1)])
L_Contexts == Event(0, "contexts", TS, [contexts |-> Arr(<<Str("x"), Num(7)>>)])
L_End == Event(0, "end", TS, [metadata |-> Obj([model |-> Str("m")]), tokens |-> Tokens(3, 4)])
L_Other == Event(0, "custom", "yesterday", [content |-> Str("q"), tokens |-> Tokens(5, 2)])

\* QueryStream treats a line as text; any three distinct lines do
TextLines == {L_Blank, L_Spaces, L_Text}
\* structured-event output with blank and malformed lines in it
MalformedMix == {L_Spaces, L_Text, L_NoEvent, L_ContentA, L_End}
\* structured-event output of every kind the aggregation distinguishes
EventMix == {L_ContentA, L_ContentB, L_Contexts, L_End, L_Other}
\* the outputs considered: all lines of one run come from one of these sets
LineFamilies(o) == IF o = "QueryStream" THEN {TextLines} ELSE {MalformedMix, EventMix}

Range(seq) == {seq[i] : i \in 1..Len(seq)}

ExitCodes == {0, 1, 2}

-----------------------------------------------------------------------------
(* Captured process output: sequences of one-character strings *)

OutputChars == {" ", "x"}

RECURSIVE TrimLeft(_)
TrimLeft(s) == IF Len(s) > 0 /\ Head(s) = " " THEN TrimLeft(Tail(s)) ELSE s
RECURSIVE TrimRight(_)
TrimRight(s) ==
    IF Len(s) > 0 /\ s[Len(s)] = " " THEN TrimRight(SubSeq(s, 1, Len(s) - 1)) ELSE s
\* strings.TrimSpace on captured output
TrimSpaceChars(s) == TrimRight(TrimLeft(s))

RECURSIVE Join(_, _)
\* strings.Join(parts, sep)
Join(parts, sep) ==
    IF Len(parts) = 0 THEN ""
    ELSE IF Len(parts) = 1 THEN parts[1]
    ELSE parts[1] \o sep \o Join(Tail(parts), sep)

-----------------------------------------------------------------------------
(* Configuration and per-call options (types.go) *)

NoOptions == [nil |-> TRUE]
NilInt == [nil |-> TRUE]
IntPtr(n) == [nil |-> FALSE, v |-> n]
NilBool == [nil |-> TRUE]
BoolPtr(b) == [nil |-> FALSE, v |-> b]

\* NewRAGConfig(docDir).  The three float64 fields are held in hundredths
\* (0.7 is 70); a nil Envs map ranges like the empty map.
NewRAGConfig(docDir) ==
    [DocDir |-> docDir, CommandPath |-> "auto-coder.rag", Model |-> "v3_chat",
     ModelFile |-> "", Timeout |-> DefaultTimeout,
     RagContextWindowLimit |-> 56000, FullTextRatio |-> 70, SegmentRatio |-> 20,
     RagDocFilterRelevance |-> 0, Agentic |-> FALSE, ProductMode |-> "lite",
     EnableHybridIndex |-> FALSE, DisableAutoWindow |-> FALSE,
     DisableSegmentReorder |-> FALSE, Envs |-> EmptyMap, WindowsUtf8Env |-> FALSE]

\* &RAGQueryOptions{OutputFormat: f}: every other field has its zero value
OptionsWithFormat(f) ==
    [nil |-> FALSE, OutputFormat |-> f, Agentic |-> NilBool, ProductMode |-> "",
     Model |-> "", ModelFile |-> "", Timeout |-> NilInt, Envs |-> EmptyMap]

-----------------------------------------------------------------------------
(* buildCommand: the argument vector *)

\* strconv.Itoa
Itoa(n) == ToString(n)

\* fmt.Sprintf("%.1f", x) for x >= 0 given in hundredths.  Hundredths ending
\* in 5 are not used: how they round depends on the binary value of x.
FormatF1(h) ==
    LET t == (h + 5) \div 10
    IN ToString(t \div 10) \o "." \o ToString(t % 10)

\* fmt.Sprintf("%d", int(x)) for x in hundredths: int() truncates toward zero
FormatTruncated(h) ==
    IF h >= 0 THEN ToString(h \div 100) ELSE ToString(-((-h) \div 100))

ModelArgs(cfg, opts) ==
    LET model == IF opts.Model # "" THEN opts.Model ELSE cfg.Model
    IN IF model # "" THEN <<"--model", model>> ELSE <<>>

ModelFileArgs(cfg, opts) ==
    LET modelFile == IF opts.ModelFile # "" THEN opts.ModelFile ELSE cfg.ModelFile
    IN IF modelFile # "" THEN <<"--model_file", modelFile>> ELSE <<>>

FormatArgs(opts) ==
    <<"--output_format", IF opts.OutputFormat = "" THEN "text" ELSE opts.OutputFormat>>

AgenticArgs_Or(cfg, opts) ==
    IF cfg.Agentic \/ (~opts.Agentic.nil /\ opts.Agentic.v) THEN <<"--agentic">> ELSE <<>>

AgenticArgs(cfg, opts) ==
    LET agentic == IF ~opts.Agentic.nil THEN opts.Agentic.v ELSE cfg.Agentic
    IN IF agentic THEN <<"--agentic">> ELSE <<>>

ProductModeArgs(cfg, opts) ==
    LET productMode == IF opts.ProductMode # "" THEN opts.ProductMode
                       ELSE cfg.ProductMode
    IN IF productMode = "pro" THEN <<"--pro">>
       ELSE IF productMode = "lite" THEN <<"--lite">>
       ELSE <<>>

NumericArgs_RatiosSwapped(cfg) ==
    <<"--rag_context_window_limit", Itoa(cfg.RagContextWindowLimit),
      "--segment_ratio", FormatF1(cfg.SegmentRatio),
      "--full_text_ratio", FormatF1(cfg.FullTextRatio),
      "--rag_doc_filter_relevance", FormatTruncated(cfg.RagDocFilterRelevance)>>

NumericArgs(cfg) ==
    <<"--rag_context_window_limit", Itoa(cfg.RagContextWindowLimit),
      "--full_text_ratio", FormatF1(cfg.FullTextRatio),
      "--segment_ratio", FormatF1(cfg.SegmentRatio),
      "--rag_doc_filter_relevance", FormatTruncated(cfg.RagDocFilterRelevance)>>

IndexArgs_NoReorderFlag(cfg) ==
    (IF cfg.EnableHybridIndex THEN <<"--enable_hybrid_index">> ELSE <<>>) \o
    (IF cfg.DisableAutoWindow THEN <<"--disable_auto_window">> ELSE <<>>)

IndexArgs(cfg) ==
    (IF cfg.EnableHybridIndex THEN <<"--enable_hybrid_index">> ELSE <<>>) \o
    (IF cfg.DisableAutoWindow THEN <<"--disable_auto_window">> ELSE <<>>) \o
    (IF cfg.DisableSegmentReorder THEN <<"--disable_segment_reorder">> ELSE <<>>)

\* buildCommand(options) on a client with configuration cfg; options is non-nil
buildCommand(cfg, opts) ==
    <<cfg.CommandPath, "run", "--doc_dir", cfg.DocDir>> \o
    ModelArgs(cfg, opts) \o ModelFileArgs(cfg, opts) \o FormatArgs(opts) \o
    AgenticArgs(cfg, opts) \o ProductModeArgs(cfg, opts) \o
    NumericArgs(cfg) \o IndexArgs(cfg)

-----------------------------------------------------------------------------
(* buildEnv: the environment of the subprocess *)

\* os.Environ(): each entry is given by its pieces between "=" signs, so
\* <<"OPTS", "a", "b">> is the entry "OPTS=a=b" and <<"JUNK">> has no "="
Environ == << <<"LANG", "C">>, <<"HOME", "/h">>, <<"OPTS", "a", "b">>, <<"JUNK">> >>

RECURSIVE JoinEq(_)
JoinEq(pieces) ==
    IF Len(pieces) = 1 THEN pieces[1] ELSE pieces[1] \o "=" \o JoinEq(Tail(pieces))

\* strings.SplitN(e, "=", 2)
SplitN2(e) == IF Len(e) = 1 THEN e ELSE <<e[1], JoinEq(Tail(e))>>

\* for k, v := range over { envMap[k] = v }
Overlay(envMap, over) ==
    [k \in DOMAIN envMap \cup DOMAIN over |->
        IF k \in DOMAIN over THEN over[k] ELSE envMap[k]]

\* the entries of os.Environ() that split in two, as a map
SystemEnv ==
    LET split == {SplitN2(Environ[i]) : i \in 1..Len(Environ)}
        keys == {parts[1] : parts \in {q \in split : Len(q) = 2}}
        last(k) == CHOOSE i \in 1..Len(Environ) :
                      /\ Len(SplitN2(Environ[i])) = 2
                      /\ SplitN2(Environ[i])[1] = k
                      /\ \A j \in (i + 1)..Len(Environ) :
                            ~(Len(SplitN2(Environ[j])) = 2 /\ SplitN2(Environ[j])[1] = k)
    IN [k \in keys |-> SplitN2(Environ[last(k)])[2]]

Utf8Env ==
    [k \in {"PYTHONIOENCODING", "LANG", "LC_ALL", "CHCP"} |->
        CASE k = "PYTHONIOENCODING" -> "utf-8"
          [] k = "LANG" -> "zh_CN.UTF-8"
          [] k = "LC_ALL" -> "zh_CN.UTF-8"
          [] k = "CHCP" -> "65001"]

\* buildEnv(options): system environment, then the Windows UTF-8 overlay,
\* then config.Envs, then options.Envs; the result is the set of "k=v"
\* entries, held as <<k, v>> (the order of a map range is not fixed)
buildEnv(cfg, opts, os) ==
    LET e2 == IF cfg.WindowsUtf8Env /\ os = "windows"
              THEN Overlay(SystemEnv, Utf8Env) ELSE SystemEnv
        e3 == Overlay(e2, cfg.Envs)
        e4 == IF ~opts.nil THEN Overlay(e3, opts.Envs) ELSE e3
    IN {<<k, e4[k]>> : k \in DOMAIN e4}

-----------------------------------------------------------------------------
(* The subprocess of a streaming call *)

\* the subprocess writes one more line to standard output
ProcWrite ==
    /\ procState = "running"
    /\ Len(written) < MaxLines
    /\ \E family \in LineFamilies(op) :
          /\ Range(written) \subseteq family
          /\ \E line \in family : written' = Append(written, line)
    /\ UNCHANGED <<op, consumer, pc, procState, exitStatus, scanned, ProcessState,
                   readErr, resultChan, errorChan, resultCloses, errorCloses,
                   errSent, errSendBlocked, sentAtReadErr, received, gotErr>>
    /\ UNCHANGED <<collectVars, queryVars, spawned>>
    /\ UNCHANGED <<launchVars, stderrVars>>
    /\ UNCHANGED <<procVars, restVars>>

\* the subprocess exits (closing its standard output) with some exit code
ProcExit ==
    /\ procState = "running"
    /\ procState' = "exited"
    /\ \E code \in ExitCodes : exitStatus' = code
    /\ UNCHANGED <<op, consumer, pc, written, scanned, ProcessState,
                   readErr, resultChan, errorChan, resultCloses, errorCloses,
                   errSent, errSendBlocked, sentAtReadErr, received, gotErr>>
    /\ UNCHANGED <<collectVars, queryVars, spawned>>
    /\ UNCHANGED <<launchVars, stderrVars>>
    /\ UNCHANGED <<procVars, restVars>>

-----------------------------------------------------------------------------
(* The producer goroutine of QueryStream and of QueryStreamMessages *)

\* errorChan <- e : the buffer takes it, or the send blocks
SendError(e) ==
    IF Len(errorChan) < ErrChanCap
    THEN /\ errorChan' = Append(errorChan, e)
         /\ errSent' = Append(errSent, e)
         /\ UNCHANGED errSendBlocked
    ELSE /\ errSendBlocked' = TRUE
         /\ UNCHANGED <<errorChan, errSent>>

\* Pipe creation and execCmd.Start(): the first failure is reported and the
\* goroutine returns; otherwise the subprocess runs.
Launch(failures, opts, stderrPiped) ==
    /\ pc = "launch"
    /\ argv' = buildCommand(client.config, opts)
    /\ envp' = buildEnv(client.config, opts, goos)
    /\ \/ /\ \E f \in failures : SendError(RAGError(f))
          /\ pc' = "closeErr"
          /\ UNCHANGED <<procState, spawned, drain, stdinWriter>>
       \/ /\ procState' = "running"
          /\ spawned' = spawned + 1
          /\ pc' = "scan"
          /\ drain' = IF stderrPiped THEN "reading" ELSE drain
          /\ stdinWriter' = "writing"
          /\ UNCHANGED <<errorChan, errSent, errSendBlocked>>
    /\ UNCHANGED <<goos, qDeadline, stderrWritten, drainBuf, stderrOutput, stderrClosed>>
    /\ UNCHANGED <<stdinLeft, stdinPipe, waited, restVars>>
    /\ UNCHANGED <<op, consumer, exitStatus, written, scanned, ProcessState, readErr,
                   resultChan, resultCloses, errorCloses, sentAtReadErr, received, gotErr>>
    /\ UNCHANGED <<collectVars, queryVars>>

\* QueryStream: nil options become {OutputFormat: "text"}; the stderr pipe is
\* created and a task drains it
QS_Launch ==
    /\ op = "QueryStream"
    /\ Launch({"create stdin failed", "create stdout failed",
               "create stderr failed", "start command failed"},
              IF options.nil THEN OptionsWithFormat("text") ELSE options,
              TRUE)

\* the options QueryStreamMessages hands to buildCommand and buildEnv: a fresh
\* record with OutputFormat forced and four fields copied
QSM_Options(o) ==
    IF o.nil THEN OptionsWithFormat("stream-json")
    ELSE [OptionsWithFormat("stream-json") EXCEPT
             !.Agentic = o.Agentic, !.ProductMode = o.ProductMode,
             !.Model = o.Model, !.Timeout = o.Timeout]

\* QueryStreamMessages: standard error is not piped
QSM_Launch ==
    /\ op = "QueryStreamMessages"
    /\ Launch({"create stdin failed", "create stdout failed", "start command failed"},
              QSM_Options(options), FALSE)

QS_Scan_SkipBlank ==
    /\ op = "QueryStream"
    /\ pc = "scan"
    /\ scanned < Len(written)
    /\ IF IsEmptyString(TrimSpace(written[scanned + 1]))
       THEN UNCHANGED resultChan
       ELSE /\ Len(resultChan) < ChanCap
            /\ resultChan' = Append(resultChan, written[scanned + 1])
    /\ scanned' = scanned + 1
    /\ UNCHANGED <<op, consumer, pc, procState, exitStatus, written, ProcessState,
                   readErr, errorChan, resultCloses, errorCloses, errSent,
                   errSendBlocked, sentAtReadErr, received, gotErr>>
    /\ UNCHANGED <<collectVars, queryVars, spawned>>
    /\ UNCHANGED <<launchVars, stderrVars>>
    /\ UNCHANGED <<procVars, restVars>>

\* a producer whose loop goes on sending after it has reported or returned
QS_Scan_Unguarded ==
    /\ op = "QueryStream"
    /\ pc \in {"scan", "closeErr", "closeRes", "done"}
    /\ scanned < Len(written)
    /\ Len(resultChan) < ChanCap
    /\ resultChan' = Append(resultChan, written[scanned + 1])
    /\ scanned' = scanned + 1
    /\ UNCHANGED <<op, consumer, pc, procState, exitStatus, written, ProcessState,
                   readErr, errorChan, resultCloses, errorCloses, errSent,
                   errSendBlocked, sentAtReadErr, received, gotErr>>
    /\ UNCHANGED <<collectVars, queryVars, spawned>>
    /\ UNCHANGED <<launchVars, stderrVars>>
    /\ UNCHANGED <<procVars, restVars>>

\* a producer that reads standard output only after the question is written
QS_Scan_AfterStdinWritten ==
    /\ op = "QueryStream"
    /\ pc = "scan"
    /\ stdinWriter = "done"
    /\ scanned < Len(written)
    /\ Len(resultChan) < ChanCap
    /\ resultChan' = Append(resultChan, written[scanned + 1])
    /\ scanned' = scanned + 1
    /\ UNCHANGED <<op, consumer, pc, procState, exitStatus, written, ProcessState,
                   readErr, errorChan, resultCloses, errorCloses, errSent,
                   errSendBlocked, sentAtReadErr, received, gotErr>>
    /\ UNCHANGED <<collectVars, queryVars, spawned>>
    /\ UNCHANGED <<launchVars, stderrVars>>
    /\ UNCHANGED <<procVars, restVars>>

\* for scanner.Scan() { resultChan <- scanner.Text() }
QS_Scan ==
    /\ op = "QueryStream"
    /\ pc = "scan"
    /\ scanned < Len(written)
    /\ Len(resultChan) < ChanCap
    /\ resultChan' = Append(resultChan, written[scanned + 1])
    /\ scanned' = scanned + 1
    /\ UNCHANGED <<op, consumer, pc, procState, exitStatus, written, ProcessState,
                   readErr, errorChan, resultCloses, errorCloses, errSent,
                   errSendBlocked, sentAtReadErr, received, gotErr>>
    /\ UNCHANGED <<collectVars, queryVars, spawned>>
    /\ UNCHANGED <<launchVars, stderrVars>>
    /\ UNCHANGED <<procVars, restVars>>

\* for scanner.Scan() { trim; skip blank; FromJSON or skip; messageChan <- message }
QSM_Scan ==
    /\ op = "QueryStreamMessages"
    /\ pc = "scan"
    /\ scanned < Len(written)
    /\ LET line == TrimSpace(written[scanned + 1])
           parsed == FromJSON(line)
       IN IF IsEmptyString(line)
          THEN UNCHANGED resultChan
          ELSE IF parsed.err
               THEN UNCHANGED resultChan
               ELSE /\ Len(resultChan) < ChanCap
                    /\ resultChan' = Append(resultChan, parsed.msg)
    /\ scanned' = scanned + 1
    /\ UNCHANGED <<op, consumer, pc, procState, exitStatus, written, ProcessState,
                   readErr, errorChan, resultCloses, errorCloses, errSent,
                   errSendBlocked, sentAtReadErr, received, gotErr>>
    /\ UNCHANGED <<collectVars, queryVars, spawned>>
    /\ UNCHANGED <<launchVars, stderrVars>>
    /\ UNCHANGED <<procVars, restVars>>

ReadError_NoReturn ==
    /\ pc = "scan"
    /\ readErr' = TRUE
    /\ sentAtReadErr' = Len(received) + Len(resultChan)
    /\ SendError(RAGError("read output failed"))
    /\ UNCHANGED pc
    /\ UNCHANGED <<op, consumer, procState, exitStatus, written, scanned, ProcessState,
                   resultChan, resultCloses, errorCloses, received, gotErr>>
    /\ UNCHANGED <<collectVars, queryVars, spawned>>
    /\ UNCHANGED <<launchVars, stderrVars>>
    /\ UNCHANGED <<procVars, restVars>>

\* scanner.Scan() returns false with scanner.Err() # nil: report and return
ReadError ==
    /\ pc = "scan"
    /\ readErr' = TRUE
    /\ sentAtReadErr' = Len(received) + Len(resultChan)
    /\ SendError(RAGError("read output failed"))
    /\ pc' = "closeErr"
    /\ UNCHANGED <<op, consumer, procState, exitStatus, written, scanned, ProcessState,
                   resultChan, resultCloses, errorCloses, received, gotErr>>
    /\ UNCHANGED <<collectVars, queryVars, spawned>>
    /\ UNCHANGED <<launchVars, stderrVars>>
    /\ UNCHANGED <<procVars, restVars>>

QS_ReadError == op = "QueryStream" /\ ReadError

QSM_ReadError == op = "QueryStreamMessages" /\ ReadError

Wait_ExitCodeOne(msg) ==
    /\ pc = "scan"
    /\ scanned = Len(written)
    /\ procState = "exited"
    /\ \/ /\ ProcessState' = [set |-> TRUE, ExitCode |-> exitStatus]
          /\ IF exitStatus # 0
             THEN SendError(ExecutionError(msg, 1))
             ELSE UNCHANGED <<errorChan, errSent, errSendBlocked>>
       \/ /\ UNCHANGED ProcessState
          /\ SendError(RAGError(msg))
    /\ pc' = "closeErr"
    /\ UNCHANGED <<op, consumer, procState, exitStatus, written, scanned, readErr,
                   resultChan, resultCloses, errorCloses, sentAtReadErr, received, gotErr>>
    /\ UNCHANGED <<collectVars, queryVars, spawned>>
    /\ UNCHANGED launchVars
    /\ waited' = TRUE
    /\ UNCHANGED <<stdinWriter, stdinLeft, stdinPipe, restVars>>

\* a producer whose subprocess is bound to the resolved timeout, as Query's
\* is: when the deadline passes the subprocess is killed and the wait returns
Wait_OnDeadline(msg) ==
    /\ pc = "scan"
    /\ LET timeout == IF ~options.nil /\ ~options.Timeout.nil
                      THEN options.Timeout.v ELSE client.config.Timeout
       IN \/ /\ scanned = Len(written)
             /\ procState = "exited"
             /\ ProcessState' = [set |-> TRUE, ExitCode |-> exitStatus]
             /\ IF exitStatus # 0
                THEN SendError(ExecutionError(msg, exitStatus))
                ELSE UNCHANGED <<errorChan, errSent, errSendBlocked>>
             /\ UNCHANGED procState
          \/ /\ procState = "running"
             /\ clock >= timeout
             /\ procState' = "killed"
             /\ ProcessState' = [set |-> TRUE, ExitCode |-> -1]
             /\ SendError(ExecutionError(msg, -1))
    /\ pc' = "closeErr"
    /\ waited' = TRUE
    /\ UNCHANGED <<op, consumer, exitStatus, written, scanned, readErr,
                   resultChan, resultCloses, errorCloses, sentAtReadErr, received, gotErr>>
    /\ UNCHANGED <<collectVars, queryVars, spawned, launchVars>>
    /\ UNCHANGED <<stdinWriter, stdinLeft, stdinPipe, restVars>>

\* scanner.Scan() returns false at end of output, then execCmd.Wait(): a
\* collected non-zero exit status gives an ExecutionError, a failed wait a
\* RAGError, a collected zero status nothing.
Wait(msg) ==
    /\ pc = "scan"
    /\ scanned = Len(written)
    /\ procState = "exited"
    /\ \/ /\ ProcessState' = [set |-> TRUE, ExitCode |-> exitStatus]
          /\ IF exitStatus # 0
             THEN SendError(ExecutionError(msg, exitStatus))
             ELSE UNCHANGED <<errorChan, errSent, errSendBlocked>>
       \/ /\ UNCHANGED ProcessState
          /\ SendError(RAGError(msg))
    /\ pc' = "closeErr"
    /\ UNCHANGED <<op, consumer, procState, exitStatus, written, scanned, readErr,
                   resultChan, resultCloses, errorCloses, sentAtReadErr, received, gotErr>>
    /\ UNCHANGED <<collectVars, queryVars, spawned>>
    /\ UNCHANGED launchVars
    /\ waited' = TRUE
    /\ UNCHANGED <<stdinWriter, stdinLeft, stdinPipe, restVars>>

\* the message QueryStream builds after a failed Wait: exit code or error,
\* command name, and the trimmed stderr text when it is not empty
QS_Message(stderrOut) ==
    LET stderrStr == TrimSpaceChars(stderrOut)
    IN "command failed (" \o argv[1] \o ")" \o
       (IF stderrStr # <<>> THEN "; stderr: " \o Join(stderrStr, "") ELSE "")

\* QueryStream: execCmd.Wait() closes the stderr pipe once the process has
\* exited, then stderrOutput is read with no synchronisation with the drain
\* task.  The read sees what the task has assigned; a task cut short by the
\* close may assign what it had read just before the read.
QS_Wait ==
    /\ op = "QueryStream"
    /\ stderrClosed' = TRUE
    /\ \/ /\ Wait(QS_Message(stderrOutput))
          /\ UNCHANGED <<stderrWritten, drainBuf, stderrOutput, drain>>
       \/ /\ drain = "reading"
          /\ Wait(QS_Message(drainBuf))
          /\ stderrOutput' = drainBuf
          /\ drain' = "done"
          /\ UNCHANGED <<stderrWritten, drainBuf>>

\* QueryStreamMessages: the message is fixed; there is no stderr pipe
QSM_Wait ==
    /\ op = "QueryStreamMessages"
    /\ Wait("command failed")
    /\ UNCHANGED stderrVars

\* the subprocess writes a character to standard error
ProcWriteStderr ==
    /\ procState = "running"
    /\ Len(stderrWritten) < MaxStderr
    /\ \E ch \in OutputChars : stderrWritten' = Append(stderrWritten, ch)
    /\ UNCHANGED <<drainBuf, stderrOutput, drain, stderrClosed>>
    /\ UNCHANGED <<streamVars, collectVars, queryVars, spawned, launchVars>>
    /\ UNCHANGED <<procVars, restVars>>

\* io.ReadAll(stderr): one more read returns what is in the pipe
Drain_Read ==
    /\ drain = "reading"
    /\ ~stderrClosed
    /\ Len(drainBuf) < Len(stderrWritten)
    /\ drainBuf' = stderrWritten
    /\ UNCHANGED <<stderrWritten, stderrOutput, drain, stderrClosed>>
    /\ UNCHANGED <<streamVars, collectVars, queryVars, spawned, launchVars>>
    /\ UNCHANGED <<procVars, restVars>>

\* io.ReadAll returns, at end of file or because the pipe was closed, and the
\* task assigns stderrOutput
Drain_Return ==
    /\ drain = "reading"
    /\ \/ stderrClosed
       \/ procState = "exited" /\ drainBuf = stderrWritten
    /\ stderrOutput' = drainBuf
    /\ drain' = "done"
    /\ UNCHANGED <<stderrWritten, drainBuf, stderrClosed>>
    /\ UNCHANGED <<streamVars, collectVars, queryVars, spawned, launchVars>>
    /\ UNCHANGED <<procVars, restVars>>

\* the subprocess writes one more line into the stdout pipe, which has room
Pipe_ProcWrite ==
    /\ procState = "running"
    /\ Len(written) < MaxLines
    /\ Len(written) - scanned < PipeCap
    /\ written' = Append(written, IF op = "QueryStream" THEN L_Text ELSE L_ContentA)
    /\ UNCHANGED <<op, consumer, pc, procState, exitStatus, scanned, ProcessState,
                   readErr, resultChan, errorChan, resultCloses, errorCloses,
                   errSent, errSendBlocked, sentAtReadErr, received, gotErr>>
    /\ UNCHANGED <<collectVars, queryVars, spawned, launchVars, stderrVars>>
    /\ UNCHANGED <<procVars, restVars>>

\* the subprocess writes one more character to standard error: into the
\* stderr pipe when it has room (QueryStream), or to the null device
\* (QueryStreamMessages leaves execCmd.Stderr nil)
Pipe_ProcWriteStderr ==
    /\ procState = "running"
    /\ Len(stderrWritten) < MaxStderr
    /\ drain # "none" => Len(stderrWritten) - Len(drainBuf) < PipeCap
    /\ stderrWritten' = Append(stderrWritten, "x")
    /\ UNCHANGED <<drainBuf, stderrOutput, drain, stderrClosed>>
    /\ UNCHANGED <<streamVars, collectVars, queryVars, spawned, launchVars>>
    /\ UNCHANGED <<procVars, restVars>>

\* the subprocess reads a piece of the question from standard input
ProcReadInput ==
    /\ procState = "running"
    /\ stdinPipe > 0
    /\ stdinPipe' = stdinPipe - 1
    /\ UNCHANGED <<stdinWriter, stdinLeft, waited, restVars>>
    /\ UNCHANGED <<streamVars, collectVars, queryVars, spawned, launchVars, stderrVars>>

\* go func() { ...; stdin.Write([]byte(question)) }(): the write moves one
\* more piece into the pipe, blocking while the pipe is full
Stdin_Write ==
    /\ stdinWriter = "writing"
    /\ procState = "running"
    /\ stdinLeft > 0
    /\ stdinPipe < StdinCap
    /\ stdinLeft' = stdinLeft - 1
    /\ stdinPipe' = stdinPipe + 1
    /\ UNCHANGED <<stdinWriter, waited, restVars>>
    /\ UNCHANGED <<streamVars, collectVars, queryVars, spawned, launchVars, stderrVars>>

\* the write returns, complete or failed because the reader is gone, and the
\* deferred stdin.Close() runs
Stdin_Close ==
    /\ stdinWriter = "writing"
    /\ stdinLeft = 0 \/ procState = "exited"
    /\ stdinWriter' = "done"
    /\ UNCHANGED <<stdinLeft, stdinPipe, waited, restVars>>
    /\ UNCHANGED <<streamVars, collectVars, queryVars, spawned, launchVars, stderrVars>>

\* defer close(errorChan): registered last, so it runs first
CloseErrorChan ==
    /\ pc = "closeErr"
    /\ errorCloses' = errorCloses + 1
    /\ pc' = "closeRes"
    /\ UNCHANGED <<op, consumer, procState, exitStatus, written, scanned, ProcessState,
                   readErr, resultChan, errorChan, resultCloses, errSent,
                   errSendBlocked, sentAtReadErr, received, gotErr>>
    /\ UNCHANGED <<collectVars, queryVars, spawned>>
    /\ UNCHANGED <<launchVars, stderrVars>>
    /\ UNCHANGED <<procVars, restVars>>

\* defer close(resultChan) / defer close(messageChan)
CloseResultChan ==
    /\ pc = "closeRes"
    /\ resultCloses' = resultCloses + 1
    /\ pc' = "done"
    /\ UNCHANGED <<op, consumer, procState, exitStatus, written, scanned, ProcessState,
                   readErr, resultChan, errorChan, errorCloses, errSent,
                   errSendBlocked, sentAtReadErr, received, gotErr>>
    /\ UNCHANGED <<collectVars, queryVars, spawned>>
    /\ UNCHANGED <<launchVars, stderrVars>>
    /\ UNCHANGED <<procVars, restVars>>

-----------------------------------------------------------------------------
(* A caller that keeps receiving from both returned channels *)

Caller_RecvResult ==
    /\ consumer = "Caller"
    /\ Len(resultChan) > 0
    /\ received' = Append(received, Head(resultChan))
    /\ resultChan' = Tail(resultChan)
    /\ UNCHANGED <<op, consumer, pc, procState, exitStatus, written, scanned,
                   ProcessState, readErr, errorChan, resultCloses, errorCloses,
                   errSent, errSendBlocked, sentAtReadErr, gotErr>>
    /\ UNCHANGED <<collectVars, queryVars, spawned>>
    /\ UNCHANGED <<launchVars, stderrVars>>
    /\ UNCHANGED <<procVars, restVars>>

Caller_RecvError ==
    /\ consumer = "Caller"
    /\ Len(errorChan) > 0
    /\ gotErr' = Append(gotErr, Head(errorChan))
    /\ errorChan' = Tail(errorChan)
    /\ UNCHANGED <<op, consumer, pc, procState, exitStatus, written, scanned,
                   ProcessState, readErr, resultChan, resultCloses, errorCloses,
                   errSent, errSendBlocked, sentAtReadErr, received>>
    /\ UNCHANGED <<collectVars, queryVars, spawned>>
    /\ UNCHANGED <<launchVars, stderrVars>>
    /\ UNCHANGED <<procVars, restVars>>

-----------------------------------------------------------------------------
(* QueryWithBuffer: the select loop over resultChan and errorChan *)

\* the string "\n" as a piece of the buffer
NewLine == Line(0, [t |-> "newline"])

\* QueryWithBuffer(resultChan, errorChan) is called: var buffer strings.Builder
QWB_Call ==
    /\ consumer = "QueryWithBuffer"
    /\ bufpc = "idle"
    /\ bufpc' = "select"
    /\ buffer' = <<>>
    /\ UNCHANGED <<bufErr, rtVars, ctVars, textVars>>
    /\ UNCHANGED <<streamVars, collectVars, queryVars, spawned, launchVars, stderrVars,
                   procVars>>
    /\ UNCHANGED concVars

\* a loop that appends the line without the newline
QWB_RecvLine_NoNewline ==
    /\ consumer = "QueryWithBuffer"
    /\ bufpc = "select"
    /\ Len(resultChan) > 0
    /\ buffer' = Append(buffer, Head(resultChan))
    /\ received' = Append(received, Head(resultChan))
    /\ resultChan' = Tail(resultChan)
    /\ UNCHANGED <<bufpc, bufErr, rtVars, ctVars, textVars>>
    /\ UNCHANGED <<op, consumer, pc, procState, exitStatus, written, scanned,
                   ProcessState, readErr, errorChan, resultCloses, errorCloses,
                   errSent, errSendBlocked, sentAtReadErr, gotErr>>
    /\ UNCHANGED <<collectVars, queryVars, spawned, launchVars, stderrVars, procVars>>
    /\ UNCHANGED concVars

\* case line, ok := <-resultChan with ok: the line and a newline are appended
QWB_RecvLine ==
    /\ consumer = "QueryWithBuffer"
    /\ bufpc = "select"
    /\ Len(resultChan) > 0
    /\ buffer' = buffer \o <<Head(resultChan), NewLine>>
    /\ received' = Append(received, Head(resultChan))
    /\ resultChan' = Tail(resultChan)
    /\ UNCHANGED <<bufpc, bufErr, rtVars, ctVars, textVars>>
    /\ UNCHANGED <<op, consumer, pc, procState, exitStatus, written, scanned,
                   ProcessState, readErr, errorChan, resultCloses, errorCloses,
                   errSent, errSendBlocked, sentAtReadErr, gotErr>>
    /\ UNCHANGED <<collectVars, queryVars, spawned, launchVars, stderrVars, procVars>>
    /\ UNCHANGED concVars

\* case line, ok := <-resultChan with !ok: return buffer.String(), nil
QWB_ResultClosed ==
    /\ consumer = "QueryWithBuffer"
    /\ bufpc = "select"
    /\ Len(resultChan) = 0
    /\ resultCloses > 0
    /\ bufErr' = Nil
    /\ bufpc' = "returned"
    /\ UNCHANGED <<buffer, rtVars, ctVars, textVars>>
    /\ UNCHANGED <<streamVars, collectVars, queryVars, spawned, launchVars, stderrVars,
                   procVars>>
    /\ UNCHANGED concVars

\* case err, ok := <-errorChan with ok && err != nil: return buffer.String(), err
QWB_RecvError ==
    /\ consumer = "QueryWithBuffer"
    /\ bufpc = "select"
    /\ Len(errorChan) > 0
    /\ bufErr' = Head(errorChan)
    /\ errorChan' = Tail(errorChan)
    /\ gotErr' = Append(gotErr, Head(errorChan))
    /\ bufpc' = "returned"
    /\ UNCHANGED <<buffer, rtVars, ctVars, textVars>>
    /\ UNCHANGED <<op, consumer, pc, procState, exitStatus, written, scanned,
                   ProcessState, readErr, resultChan, resultCloses, errorCloses,
                   errSent, errSendBlocked, sentAtReadErr, received>>
    /\ UNCHANGED <<collectVars, queryVars, spawned, launchVars, stderrVars, procVars>>
    /\ UNCHANGED concVars

\* case err, ok := <-errorChan with !ok: the loop goes round again
QWB_ErrorClosed ==
    /\ consumer = "QueryWithBuffer"
    /\ bufpc = "select"
    /\ Len(errorChan) = 0
    /\ errorCloses > 0
    /\ UNCHANGED vars

-----------------------------------------------------------------------------
(* QueryCollectMessages: the select loop over messageChan and errorChan *)

NoResponse == [Success |-> FALSE, Answer |-> "", Contexts |-> <<>>, Error |-> ""]

\* case message, ok := <-messageChan with ok: fold the message
QCM_RecvMessage ==
    /\ consumer = "QueryCollectMessages"
    /\ cpc = "select"
    /\ Len(resultChan) > 0
    /\ LET message == Head(resultChan)
           tokens == GetTokens(message)
       IN /\ received' = Append(received, message)
          /\ resultChan' = Tail(resultChan)
          /\ IF IsContent(message)
             THEN /\ contentParts' = Append(contentParts, GetContent(message))
                  /\ UNCHANGED <<contexts, metadata, tokensInfo>>
             ELSE IF IsContexts(message)
             THEN /\ contexts' = contexts \o GetContexts(message)
                  /\ UNCHANGED <<contentParts, metadata, tokensInfo>>
             ELSE IF IsEnd(message)
             THEN /\ metadata' = GetMetadata(message)
                  /\ UNCHANGED <<contentParts, contexts, tokensInfo>>
             ELSE IF ~tokens.nil
             THEN /\ tokensInfo' = [input |-> tokensInfo.input + tokens.Input,
                                    generated |-> tokensInfo.generated + tokens.Generated]
                  /\ UNCHANGED <<contentParts, contexts, metadata>>
             ELSE UNCHANGED <<contentParts, contexts, metadata, tokensInfo>>
    /\ UNCHANGED <<op, consumer, pc, procState, exitStatus, written, scanned,
                   ProcessState, readErr, errorChan, resultCloses, errorCloses,
                   errSent, errSendBlocked, sentAtReadErr, gotErr>>
    /\ UNCHANGED <<cpc, response, retErr, queryVars, spawned>>
    /\ UNCHANGED <<launchVars, stderrVars>>
    /\ UNCHANGED <<procVars, restVars>>

\* case message, ok := <-messageChan with !ok: build the response and return
QCM_MessageClosed ==
    /\ consumer = "QueryCollectMessages"
    /\ cpc = "select"
    /\ Len(resultChan) = 0
    /\ resultCloses > 0
    /\ LET answer == Join(contentParts, "")
           m == IF metadata.nil THEN EmptyMap ELSE metadata.m
       IN /\ metadata' = [nil |-> FALSE,
                          m |-> [k \in DOMAIN m \cup {"tokens"} |->
                                    IF k = "tokens" THEN tokensInfo ELSE m[k]]]
          /\ response' = [Success |-> TRUE, Answer |-> answer,
                          Contexts |-> contexts, Error |-> ""]
    /\ retErr' = Nil
    /\ cpc' = "returned"
    /\ UNCHANGED <<streamVars, contentParts, contexts, tokensInfo, queryVars, spawned>>
    /\ UNCHANGED <<launchVars, stderrVars>>
    /\ UNCHANGED <<procVars, restVars>>

\* case err, ok := <-errorChan with a value: a non-nil error ends the call
QCM_RecvError ==
    /\ consumer = "QueryCollectMessages"
    /\ cpc = "select"
    /\ Len(errorChan) > 0
    /\ LET err == Head(errorChan)
       IN /\ errorChan' = Tail(errorChan)
          /\ IF err # Nil
             THEN /\ response' = [Success |-> FALSE, Answer |-> "",
                                  Contexts |-> <<>>, Error |-> err.Message]
                  /\ retErr' = err
                  /\ cpc' = "returned"
             ELSE UNCHANGED <<response, retErr, cpc>>
    /\ UNCHANGED <<op, consumer, pc, procState, exitStatus, written, scanned,
                   ProcessState, readErr, resultChan, resultCloses, errorCloses,
                   errSent, errSendBlocked, sentAtReadErr, received, gotErr>>
    /\ UNCHANGED <<contentParts, contexts, metadata, tokensInfo, queryVars, spawned>>
    /\ UNCHANGED <<launchVars, stderrVars>>
    /\ UNCHANGED <<procVars, restVars>>

\* case err, ok := <-errorChan on the closed, drained channel: ok is false,
\* nothing changes and the loop selects again
QCM_ErrorClosed ==
    /\ consumer = "QueryCollectMessages"
    /\ cpc = "select"
    /\ Len(errorChan) = 0
    /\ errorCloses > 0
    /\ UNCHANGED vars

-----------------------------------------------------------------------------
(* Configuration (types.go) *)

NoClient == [nil |-> TRUE]

\* what os.Stat(config.DocDir) can find: a directory, a regular file, nothing
\* (the error satisfies os.IsNotExist), or another error such as EACCES
StatResults == {"dir", "file", "absent", "denied"}

validateConfig_ModeOnly(cfg, stat) ==
    IF cfg.ProductMode # "lite" /\ cfg.ProductMode # "pro"
    THEN ValidationError("unsupported product mode")
    ELSE Nil

validateConfig_DirOnly(cfg, stat) ==
    IF stat = "absent"
    THEN ValidationError("document directory does not exist")
    ELSE Nil

\* validateConfig: the document directory, then the product mode
validateConfig(cfg, stat) ==
    IF stat = "absent"
    THEN ValidationError("document directory does not exist")
    ELSE IF cfg.ProductMode # "lite" /\ cfg.ProductMode # "pro"
         THEN ValidationError("unsupported product mode")
         ELSE Nil

\* the buffered Query is not running
QueryIdle ==
    /\ options = NoOptions
    /\ qpc = "idle"
    /\ qTimeout = 0
    /\ clock = 0
    /\ qProc = "none"
    /\ qExit = 0
    /\ qOutput = <<>>
    /\ qStart = "none"
    /\ qExpired = FALSE
    /\ qAnswer = <<>>
    /\ qErr = Nil

\* QueryWithBuffer has not been called
BufferIdle ==
    /\ bufpc = "idle"
    /\ buffer = <<>>
    /\ bufErr = Nil

\* no Message is being serialized
RoundTripIdle ==
    /\ rtpc = "idle"
    /\ rtMsg = <<>>
    /\ rtLine = <<>>
    /\ rtBack = <<>>

NoResult == [nil |-> TRUE]

\* CountTokens has not been called
CountIdle ==
    /\ ctpc = "idle"
    /\ ctOptions = NoOptions
    /\ ctTimeout = 0
    /\ ctArgv = <<>>
    /\ ctEnv = <<>>
    /\ ctProc = "none"
    /\ ctExit = 0
    /\ ctOutput = <<>>
    /\ ctResult = NoResult
    /\ ctErr = Nil

\* no client is being built from text
TextIdle ==
    /\ tpc = "idle"
    /\ tCall = <<>>
    /\ tDirs = {}
    /\ tFiles = EmptyMap
    /\ tWrites = <<>>
    /\ tClient = [nil |-> TRUE]
    /\ tErr = Nil

\* no concurrent calls are running
ConcIdle ==
    /\ kCalls = <<>>
    /\ kProcs = <<>>
    /\ kChans = <<>>

\* the operations outside the queries have not started
RestIdle == BufferIdle /\ RoundTripIdle /\ CountIdle /\ TextIdle /\ ConcIdle

\* no streaming call is running
StreamIdle ==
    /\ stdinWriter = "none"
    /\ stdinLeft = QuestionLen
    /\ stdinPipe = 0
    /\ waited = FALSE
    /\ procState = "none"
    /\ exitStatus = 0
    /\ written = <<>>
    /\ scanned = 0
    /\ ProcessState = [set |-> FALSE]
    /\ readErr = FALSE
    /\ resultChan = <<>>
    /\ errorChan = <<>>
    /\ resultCloses = 0
    /\ errorCloses = 0
    /\ errSent = <<>>
    /\ errSendBlocked = FALSE
    /\ sentAtReadErr = 0
    /\ received = <<>>
    /\ gotErr = <<>>
    /\ cpc = "select"
    /\ contentParts = <<>>
    /\ contexts = <<>>
    /\ metadata = [nil |-> TRUE]
    /\ tokensInfo = [input |-> 0, generated |-> 0]
    /\ response = NoResponse
    /\ retErr = Nil
    /\ stderrWritten = <<>>
    /\ drainBuf = <<>>
    /\ stderrOutput = <<>>
    /\ drain = "none"
    /\ stderrClosed = FALSE

\* no command has been built
NoCommand ==
    /\ argv = <<>>
    /\ envp = {}
    /\ qDeadline = "none"

-----------------------------------------------------------------------------
(* Streaming calls on a constructed client *)

\* QueryStream / QueryStreamMessages has just returned its two channels and
\* started the producer goroutine; QueryCollectMessages is about to select.
InitStream(ops, consumers) ==
    /\ op \in ops
    /\ consumer \in consumers
    /\ pc = "launch"
    /\ StreamIdle /\ RestIdle
    /\ fsDocDir = "dir"
    /\ config = NewRAGConfig("docs")
    /\ client = [nil |-> FALSE, config |-> config]
    /\ newErr = Nil
    /\ QueryIdle
    /\ spawned = 0
    /\ NoCommand
    /\ goos = "linux"

\* QueryStream read by a caller, QueryStreamMessages read by
\* QueryCollectMessages, with nil options.  The subprocess writes to standard
\* output only; standard error is the subject of SpecStderr.
Init ==
    /\ InitStream({"QueryStream", "QueryStreamMessages"}, {"Caller", "QueryCollectMessages"})
    /\ consumer = "QueryCollectMessages" <=> op = "QueryStreamMessages"

Next ==
    \/ ProcWrite \/ ProcExit
    \/ QS_Launch \/ QS_Scan \/ QS_ReadError \/ QS_Wait
    \/ QSM_Launch \/ QSM_Scan \/ QSM_ReadError \/ QSM_Wait
    \/ CloseErrorChan \/ CloseResultChan
    \/ Caller_RecvResult \/ Caller_RecvError
    \/ QCM_RecvMessage \/ QCM_MessageClosed \/ QCM_RecvError \/ QCM_ErrorClosed

Spec == Init /\ [][Next]_vars

-----------------------------------------------------------------------------
(* Client construction and the buffered Query *)

ProductModes == {"lite", "pro", "", "max"}
ConfigTimeouts == {1, DefaultTimeout}
OutputFormats == {"", "text", "json", "xml"}
OptionTimeouts == {NilInt, IntPtr(0), IntPtr(2)}

QueryOptions ==
    {NoOptions} \cup
    {[OptionsWithFormat(f) EXCEPT !.Timeout = t] :
        f \in OutputFormats, t \in OptionTimeouts}

InitQuery ==
    /\ fsDocDir \in StatResults
    /\ \E mode \in ProductModes, t \in ConfigTimeouts :
          config = [NewRAGConfig("docs") EXCEPT !.ProductMode = mode, !.Timeout = t]
    /\ client = NoClient
    /\ newErr = Nil
    /\ options \in QueryOptions
    /\ qpc = "new"
    /\ qTimeout = 0
    /\ clock = 0
    /\ qProc = "none"
    /\ qExit = 0
    /\ qOutput = <<>>
    /\ qStart = "none"
    /\ qExpired = FALSE
    /\ qAnswer = <<>>
    /\ qErr = Nil
    /\ spawned = 0
    /\ op = "none"
    /\ consumer = "none"
    /\ pc = "idle"
    /\ StreamIdle /\ RestIdle
    /\ NoCommand
    /\ goos = "linux"

\* the constructor's two results for a configuration
Construct(cfg) ==
    LET err == validateConfig(cfg, fsDocDir)
    IN /\ config' = cfg
       /\ newErr' = err
       /\ IF err # Nil
          THEN client' = NoClient /\ qpc' = "failed"
          ELSE client' = [nil |-> FALSE, config |-> cfg] /\ qpc' = "ready"
       /\ UNCHANGED <<fsDocDir, options, qTimeout, clock, qProc, qExit, qOutput,
                      qStart, qExpired, qAnswer, qErr>>
       /\ UNCHANGED <<streamVars, collectVars, spawned>>
       /\ UNCHANGED <<launchVars, stderrVars>>
       /\ UNCHANGED <<procVars, restVars>>

\* NewRAGClient(docDir) = NewRAGClientWithConfig(NewRAGConfig(docDir))
NewRAGClient ==
    /\ qpc = "new"
    /\ Construct(NewRAGConfig(config.DocDir))

NewRAGClientWithConfig ==
    /\ qpc = "new"
    /\ Construct(config)

ValidOutputFormat_AnyNonEmpty(f) == f # ""

\* options.OutputFormat is one of the three supported formats
ValidOutputFormat(f) == f = "text" \/ f = "json" \/ f = "stream-json"

\* Query up to context.WithTimeout: default options, format check, timeout
Query_Begin ==
    /\ qpc = "ready"
    /\ LET opts == IF options.nil THEN OptionsWithFormat("text") ELSE options
       IN IF ~ValidOutputFormat(opts.OutputFormat)
          THEN /\ qAnswer' = <<>>
               /\ qErr' = ValidationError("unsupported output format")
               /\ qpc' = "returned"
               /\ UNCHANGED <<qTimeout, clock, argv, qDeadline>>
          ELSE /\ qTimeout' = IF opts.Timeout.nil THEN client.config.Timeout
                              ELSE opts.Timeout.v
               /\ argv' = buildCommand(client.config, opts)
               /\ qDeadline' = "armed"
               /\ clock' = 0
               /\ qpc' = "start"
               /\ UNCHANGED <<qAnswer, qErr>>
    /\ UNCHANGED <<fsDocDir, config, client, newErr, options, qProc, qExit, qOutput,
                   qStart, qExpired>>
    /\ UNCHANGED <<streamVars, collectVars, spawned>>
    /\ UNCHANGED <<envp, goos, stderrVars>>
    /\ UNCHANGED <<procVars, restVars>>

\* a second passes
Tick ==
    /\ qpc \in {"start", "running"}
    /\ clock < MaxClock
    /\ clock' = clock + 1
    /\ UNCHANGED <<fsDocDir, config, client, newErr, options, qpc, qTimeout, qProc,
                   qExit, qOutput, qStart, qExpired, qAnswer, qErr>>
    /\ UNCHANGED <<streamVars, collectVars, spawned>>
    /\ UNCHANGED <<launchVars, stderrVars>>
    /\ UNCHANGED <<procVars, restVars>>

\* the context's deadline has passed
DeadlineExceeded == clock >= qTimeout

\* execCmd.CombinedOutput() starting the command: Start refuses when the
\* context is already done, or fails to find or launch the binary; in both
\* cases ProcessState stays nil and Query returns a RAGError.
Query_Start ==
    /\ qpc = "start"
    /\ envp' = buildEnv(client.config,
                        IF options.nil THEN OptionsWithFormat("text") ELSE options,
                        goos)
    /\ \/ /\ DeadlineExceeded
          /\ qExpired' = TRUE
          /\ qStart' = "failed"
          /\ qErr' = RAGError("query failed: context deadline exceeded")
          /\ qAnswer' = <<>>
          /\ qpc' = "returned"
          /\ UNCHANGED <<qProc, spawned>>
       \/ /\ ~DeadlineExceeded
          /\ qStart' = "failed"
          /\ qErr' = RAGError("query failed: executable not found")
          /\ qAnswer' = <<>>
          /\ qpc' = "returned"
          /\ UNCHANGED <<qProc, spawned, qExpired>>
       \/ /\ ~DeadlineExceeded
          /\ qStart' = "ok"
          /\ qProc' = "running"
          /\ spawned' = spawned + 1
          /\ qpc' = "running"
          /\ UNCHANGED <<qErr, qAnswer, qExpired>>
    /\ UNCHANGED <<fsDocDir, config, client, newErr, options, qTimeout, clock,
                   qExit, qOutput>>
    /\ UNCHANGED <<streamVars, collectVars>>
    /\ UNCHANGED <<argv, goos, qDeadline, stderrVars>>
    /\ UNCHANGED <<procVars, restVars>>

\* the subprocess writes a character to standard output or standard error
QProc_Write ==
    /\ qProc = "running"
    /\ Len(qOutput) < MaxOutput
    /\ \E ch \in OutputChars : qOutput' = Append(qOutput, ch)
    /\ UNCHANGED <<fsDocDir, config, client, newErr, options, qpc, qTimeout, clock,
                   qProc, qExit, qStart, qExpired, qAnswer, qErr>>
    /\ UNCHANGED <<streamVars, collectVars, spawned>>
    /\ UNCHANGED <<launchVars, stderrVars>>
    /\ UNCHANGED <<procVars, restVars>>

\* the subprocess exits by itself
QProc_Exit ==
    /\ qProc = "running"
    /\ qProc' = "exited"
    /\ \E code \in ExitCodes : qExit' = code
    /\ UNCHANGED <<fsDocDir, config, client, newErr, options, qpc, qTimeout, clock,
                   qOutput, qStart, qExpired, qAnswer, qErr>>
    /\ UNCHANGED <<streamVars, collectVars, spawned>>
    /\ UNCHANGED <<launchVars, stderrVars>>
    /\ UNCHANGED <<procVars, restVars>>

\* the context expires while the subprocess runs: exec.CommandContext kills it,
\* and ProcessState.ExitCode() of a signalled process is -1
Query_Kill ==
    /\ qpc = "running"
    /\ qProc = "running"
    /\ DeadlineExceeded
    /\ qProc' = "killed"
    /\ qExit' = -1
    /\ qExpired' = TRUE
    /\ UNCHANGED <<fsDocDir, config, client, newErr, options, qpc, qTimeout, clock,
                   qOutput, qStart, qAnswer, qErr>>
    /\ UNCHANGED <<streamVars, collectVars, spawned>>
    /\ UNCHANGED <<launchVars, stderrVars>>
    /\ UNCHANGED <<procVars, restVars>>

ExitErrorOf_Trimmed(output, exitCode) == ExecutionError(TrimSpaceChars(output), exitCode)

\* &ExecutionError{Message: string(output), ExitCode: exitCode}
ExitErrorOf(output, exitCode) == ExecutionError(output, exitCode)

\* CombinedOutput returns: err # nil with ProcessState set gives the
\* ExecutionError, err = nil the trimmed output
Query_Finish ==
    /\ qpc = "running"
    /\ qProc \in {"exited", "killed"}
    /\ IF qProc = "killed" \/ qExit # 0
       THEN /\ qAnswer' = <<>>
            /\ qErr' = ExitErrorOf(qOutput, qExit)
       ELSE /\ qAnswer' = TrimSpaceChars(qOutput)
            /\ qErr' = Nil
    /\ qpc' = "returned"
    /\ UNCHANGED <<fsDocDir, config, client, newErr, options, qTimeout, clock, qProc,
                   qExit, qOutput, qStart, qExpired>>
    /\ UNCHANGED <<streamVars, collectVars, spawned>>
    /\ UNCHANGED <<launchVars, stderrVars>>
    /\ UNCHANGED <<procVars, restVars>>

NextQuery ==
    \/ NewRAGClient \/ NewRAGClientWithConfig
    \/ Query_Begin \/ Tick \/ Query_Start
    \/ QProc_Write \/ QProc_Exit \/ Query_Kill \/ Query_Finish

SpecQuery == InitQuery /\ [][NextQuery]_vars

-----------------------------------------------------------------------------
(* The command each call builds: Query, QueryStream and QueryStreamMessages *)
(* on a constructed client, over configurations and per-call options that   *)
(* differ in the fields buildCommand and buildEnv read.                     *)

\* configurations that differ in the argument fields
ArgConfigs ==
    {[NewRAGConfig("docs") EXCEPT
         !.Model = m, !.ModelFile = mf, !.Agentic = a, !.ProductMode = pm,
         !.EnableHybridIndex = ix[1], !.DisableAutoWindow = ix[2],
         !.DisableSegmentReorder = ix[3]] :
       m \in {"", "v3_chat"}, mf \in {"", "models.json"}, a \in BOOLEAN,
       pm \in {"lite", "pro"},
       ix \in {<<TRUE, FALSE, TRUE>>, <<FALSE, TRUE, FALSE>>}}

\* per-call options that differ in the argument fields
ArgOptions ==
    {NoOptions} \cup
    {[OptionsWithFormat(f) EXCEPT
         !.Model = m, !.ModelFile = mf, !.Agentic = a, !.ProductMode = pm,
         !.Timeout = t] :
       f \in {"", "json", "xml"}, m \in {"", "qwen"}, mf \in {"", "call.json"},
       a \in {NilBool, BoolPtr(TRUE), BoolPtr(FALSE)}, pm \in {"", "pro", "max"},
       t \in {NilInt, IntPtr(2)}}

\* configurations that differ in the numeric fields (ratios and relevance in
\* hundredths: 72 is 0.72, 50 is 0.5, 500 is 5.0)
NumericConfigs ==
    {[NewRAGConfig("docs") EXCEPT
         !.RagContextWindowLimit = w, !.FullTextRatio = ft, !.SegmentRatio = sr,
         !.RagDocFilterRelevance = rel] :
       w \in {56000, 1000}, ft \in {70, 72, 100}, sr \in {20, 28},
       rel \in {0, 50, 500}}

\* configurations and options that differ in the environment fields
EnvConfigs ==
    {[NewRAGConfig("docs") EXCEPT !.Envs = e, !.WindowsUtf8Env = u] :
       e \in {EmptyMap, [LANG |-> "session", K |-> "session"]}, u \in BOOLEAN}

EnvOptions ==
    {NoOptions} \cup
    {[OptionsWithFormat("json") EXCEPT !.Envs = e] :
       e \in {EmptyMap, [LANG |-> "call"], [K |-> "call", HOME |-> "call"]}}

InitArgs ==
    /\ op \in {"Query", "QueryStream", "QueryStreamMessages"}
    /\ consumer = "none"
    /\ pc = IF op = "Query" THEN "idle" ELSE "launch"
    /\ StreamIdle /\ RestIdle
    /\ fsDocDir = "dir"
    /\ \/ config \in ArgConfigs /\ options \in ArgOptions /\ goos = "linux"
       \/ config \in EnvConfigs /\ options \in EnvOptions
                                 /\ goos \in {"linux", "windows"}
       \/ config \in NumericConfigs /\ options \in {NoOptions, OptionsWithFormat("json")}
                                     /\ goos = "linux"
    /\ client = [nil |-> FALSE, config |-> config]
    /\ newErr = Nil
    /\ qpc = IF op = "Query" THEN "ready" ELSE "idle"
    /\ qTimeout = 0
    /\ clock = 0
    /\ qProc = "none"
    /\ qExit = 0
    /\ qOutput = <<>>
    /\ qStart = "none"
    /\ qExpired = FALSE
    /\ qAnswer = <<>>
    /\ qErr = Nil
    /\ spawned = 0
    /\ NoCommand

NextArgs ==
    \/ Query_Begin \/ Query_Start \/ QProc_Exit \/ Query_Finish
    \/ QS_Launch \/ QSM_Launch
    \/ CloseErrorChan \/ CloseResultChan

SpecArgs == InitArgs /\ [][NextArgs]_vars

-----------------------------------------------------------------------------
(* Streaming calls whose subprocess writes to standard error only: the     *)
(* stderr-draining task of QueryStream runs beside the producer.           *)

InitStderr == InitStream({"QueryStream", "QueryStreamMessages"}, {"Caller"})

NextStderr ==
    \/ ProcWriteStderr \/ ProcExit
    \/ QS_Launch \/ QSM_Launch
    \/ Drain_Read \/ Drain_Return
    \/ QS_Wait \/ QSM_Wait
    \/ CloseErrorChan \/ CloseResultChan
    \/ Caller_RecvError

SpecStderr == InitStderr /\ [][NextStderr]_vars

-----------------------------------------------------------------------------
(* QueryStream alone, read by a caller that keeps receiving.  The producer  *)
(* goroutine and the caller are scheduled fairly; the subprocess need not   *)
(* write, and a read error need not happen.                                 *)

InitQS == InitStream({"QueryStream"}, {"Caller"})

NextQS ==
    \/ ProcWrite \/ ProcExit
    \/ QS_Launch \/ QS_Scan \/ QS_ReadError \/ QS_Wait
    \/ CloseErrorChan \/ CloseResultChan
    \/ Caller_RecvResult \/ Caller_RecvError

FairSpecQS ==
    /\ InitQS
    /\ [][NextQS]_vars
    /\ WF_vars(QS_Launch)
    /\ WF_vars(QS_Scan)
    /\ WF_vars(QS_Wait)
    /\ WF_vars(CloseErrorChan)
    /\ WF_vars(CloseResultChan)
    /\ WF_vars(Caller_RecvResult)

-----------------------------------------------------------------------------
(* The three flows of a streaming call over pipes of bounded capacity: the  *)
(* task writing the question, the task draining standard error and the      *)
(* producer reading standard output.  The subprocess reads its input and    *)
(* writes its output when it likes, or never; the tasks of the call and a   *)
(* caller that keeps receiving are scheduled fairly.                        *)

InitPipes == InitStream({"QueryStream", "QueryStreamMessages"}, {"Caller"})

NextPipes ==
    \/ Pipe_ProcWrite \/ Pipe_ProcWriteStderr \/ ProcReadInput \/ ProcExit
    \/ Stdin_Write \/ Stdin_Close
    \/ Drain_Read \/ Drain_Return
    \/ QS_Launch \/ QS_Scan \/ QS_ReadError \/ QS_Wait
    \/ QSM_Launch \/ QSM_Scan \/ QSM_ReadError \/ QSM_Wait
    \/ CloseErrorChan \/ CloseResultChan
    \/ Caller_RecvResult \/ Caller_RecvError

FairSpecPipes ==
    /\ InitPipes
    /\ [][NextPipes]_vars
    /\ WF_vars(Stdin_Write) /\ WF_vars(Stdin_Close)
    /\ WF_vars(Drain_Read) /\ WF_vars(Drain_Return)
    /\ WF_vars(QS_Launch) /\ WF_vars(QS_Scan) /\ WF_vars(QS_Wait)
    /\ WF_vars(QSM_Launch) /\ WF_vars(QSM_Scan) /\ WF_vars(QSM_Wait)
    /\ WF_vars(CloseErrorChan) /\ WF_vars(CloseResultChan)
    /\ WF_vars(Caller_RecvResult) /\ WF_vars(Caller_RecvError)

-----------------------------------------------------------------------------
(* Streaming calls while time passes, with a timeout in the configuration   *)
(* and, for some calls, a shorter one in the per-call options.              *)

StreamTimeoutOptions ==
    {NoOptions} \cup
    {[OptionsWithFormat("text") EXCEPT !.Timeout = t] : t \in {IntPtr(0), IntPtr(1)}}

InitDeadline ==
    /\ op \in {"QueryStream", "QueryStreamMessages"}
    /\ consumer = "Caller"
    /\ pc = "launch"
    /\ StreamIdle /\ RestIdle
    /\ fsDocDir = "dir"
    /\ \E t \in ConfigTimeouts : config = [NewRAGConfig("docs") EXCEPT !.Timeout = t]
    /\ client = [nil |-> FALSE, config |-> config]
    /\ newErr = Nil
    /\ options \in StreamTimeoutOptions
    /\ qpc = "idle"
    /\ qTimeout = 0
    /\ clock = 0
    /\ qProc = "none"
    /\ qExit = 0
    /\ qOutput = <<>>
    /\ qStart = "none"
    /\ qExpired = FALSE
    /\ qAnswer = <<>>
    /\ qErr = Nil
    /\ spawned = 0
    /\ NoCommand
    /\ goos = "linux"

\* a second passes while the producer of a streaming call is at work
Stream_Tick ==
    /\ pc \in {"launch", "scan"}
    /\ clock < MaxClock
    /\ clock' = clock + 1
    /\ UNCHANGED <<fsDocDir, config, client, newErr, options, qpc, qTimeout, qProc,
                   qExit, qOutput, qStart, qExpired, qAnswer, qErr>>
    /\ UNCHANGED <<streamVars, collectVars, spawned, launchVars, stderrVars>>
    /\ UNCHANGED <<procVars, restVars>>

NextDeadline ==
    \/ Pipe_ProcWrite \/ ProcExit \/ Stream_Tick
    \/ QS_Launch \/ QS_Scan \/ QS_ReadError \/ QS_Wait
    \/ QSM_Launch \/ QSM_Scan \/ QSM_ReadError \/ QSM_Wait
    \/ CloseErrorChan \/ CloseResultChan
    \/ Caller_RecvResult \/ Caller_RecvError

SpecDeadline == InitDeadline /\ [][NextDeadline]_vars

-----------------------------------------------------------------------------
(* QueryStream read by QueryWithBuffer.  The producer goroutine is          *)
(* scheduled fairly, and so are the cases of the select: a case that stays  *)
(* ready is chosen at some point, select choosing among ready cases at      *)
(* random.                                                                  *)

InitBuffer == InitStream({"QueryStream"}, {"QueryWithBuffer"})

NextBuffer ==
    \/ ProcWrite \/ ProcExit
    \/ QS_Launch \/ QS_Scan \/ QS_ReadError \/ QS_Wait
    \/ CloseErrorChan \/ CloseResultChan
    \/ QWB_Call \/ QWB_RecvLine \/ QWB_ResultClosed \/ QWB_RecvError \/ QWB_ErrorClosed

FairSpecBuffer ==
    /\ InitBuffer
    /\ [][NextBuffer]_vars
    /\ WF_vars(QS_Launch) /\ WF_vars(QS_Scan) /\ WF_vars(QS_Wait)
    /\ WF_vars(CloseErrorChan) /\ WF_vars(CloseResultChan)
    /\ WF_vars(QWB_RecvLine) /\ WF_vars(QWB_ResultClosed) /\ WF_vars(QWB_RecvError)

-----------------------------------------------------------------------------
(* Several calls on one client at once.  Each call is a record of its own   *)
(* locals; the subprocess and the channel pair it uses are the ones it      *)
(* created.  The client's configuration is the only thing the calls have in *)
(* common, and they only read it.  Subprocess p marks its lines and its     *)
(* non-zero exit code with p.                                               *)

Calls == 1..NumCalls
CallKinds == {"Query", "QueryStream", "QueryStreamMessages", "QueryCollectMessages"}

\* execCmd := exec.Command(...) / exec.CommandContext(...): a subprocess of
\* the call's own
ProcOf(i) == i

\* a client that kept one channel pair for all its calls
ChanOf_Shared(i) == 1

\* resultChan := make(chan ..., 100); errorChan := make(chan error, 1): a
\* channel pair of the call's own
ChanOf(i) == i

\* the line subprocess p writes
TaggedLine(p) == Event(0, "content", TS, [content |-> Str(Itoa(p))])

\* what a call of this kind makes of a line
Publish(kind, line) ==
    IF kind = "QueryStream" THEN line ELSE FromJSON(TrimSpace(line)).msg

InitCalls ==
    /\ fsDocDir = "dir"
    /\ config = NewRAGConfig("docs")
    /\ client = [nil |-> FALSE, config |-> config]
    /\ newErr = Nil
    /\ QueryIdle
    /\ spawned = 0
    /\ op = "none"
    /\ consumer = "none"
    /\ pc = "idle"
    /\ StreamIdle
    /\ NoCommand
    /\ goos = "linux"
    /\ BufferIdle /\ RoundTripIdle /\ CountIdle /\ TextIdle
    /\ kCalls \in [Calls -> {[kind |-> k, pc |-> "launch", scanned |-> 0,
                              caller |-> "waiting", got |-> <<>>, err |-> Nil] :
                                 k \in CallKinds}]
    /\ kProcs = [p \in Calls |-> [state |-> "none", out |-> <<>>, exit |-> 0]]
    /\ kChans = [c \in Calls |-> [buf |-> <<>>, closed |-> FALSE,
                                  ebuf |-> <<>>, eclosed |-> FALSE]]

\* call i starts its subprocess, or fails to: Query returns the RAGError,
\* a streaming producer sends it
K_Launch(i) ==
    /\ kCalls[i].pc = "launch"
    /\ \/ /\ kProcs' = [kProcs EXCEPT ![ProcOf(i)].state = "running"]
          /\ kCalls' = [kCalls EXCEPT ![i].pc =
                           IF kCalls[i].kind = "Query" THEN "running" ELSE "scan"]
          /\ UNCHANGED kChans
       \/ /\ kCalls[i].kind = "Query"
          /\ kCalls' = [kCalls EXCEPT ![i].pc = "done", ![i].caller = "returned",
                                      ![i].err = RAGError("start command failed")]
          /\ UNCHANGED <<kProcs, kChans>>
       \/ /\ kCalls[i].kind # "Query"
          /\ kChans' = [kChans EXCEPT ![ChanOf(i)].ebuf =
                           Append(@, RAGError("start command failed"))]
          /\ kCalls' = [kCalls EXCEPT ![i].pc = "closeErr"]
          /\ UNCHANGED kProcs
    /\ UNCHANGED <<streamVars, collectVars, queryVars, spawned, launchVars, stderrVars,
                   procVars, bufVars, rtVars, ctVars, textVars>>

\* subprocess p writes its line
KProc_Write(p) ==
    /\ kProcs[p].state = "running"
    /\ Len(kProcs[p].out) < MaxConcLines
    /\ kProcs' = [kProcs EXCEPT ![p].out = Append(@, TaggedLine(p))]
    /\ UNCHANGED <<kCalls, kChans>>
    /\ UNCHANGED <<streamVars, collectVars, queryVars, spawned, launchVars, stderrVars,
                   procVars, bufVars, rtVars, ctVars, textVars>>

\* subprocess p exits, with 0 or with its own code
KProc_Exit(p) ==
    /\ kProcs[p].state = "running"
    /\ \E code \in {0, p} :
          kProcs' = [kProcs EXCEPT ![p].state = "exited", ![p].exit = code]
    /\ UNCHANGED <<kCalls, kChans>>
    /\ UNCHANGED <<streamVars, collectVars, queryVars, spawned, launchVars, stderrVars,
                   procVars, bufVars, rtVars, ctVars, textVars>>

\* the producer of streaming call i reads the next line of its subprocess
\* and sends it on its channel
K_Scan(i) ==
    /\ kCalls[i].kind # "Query"
    /\ kCalls[i].pc = "scan"
    /\ kCalls[i].scanned < Len(kProcs[ProcOf(i)].out)
    /\ Len(kChans[ChanOf(i)].buf) < ChanCap
    /\ kChans' = [kChans EXCEPT ![ChanOf(i)].buf =
                     Append(@, Publish(kCalls[i].kind,
                                       kProcs[ProcOf(i)].out[kCalls[i].scanned + 1]))]
    /\ kCalls' = [kCalls EXCEPT ![i].scanned = @ + 1]
    /\ UNCHANGED kProcs
    /\ UNCHANGED <<streamVars, collectVars, queryVars, spawned, launchVars, stderrVars,
                   procVars, bufVars, rtVars, ctVars, textVars>>

\* the producer of streaming call i waits on its subprocess at end of
\* output and sends the ExecutionError of a non-zero exit
K_Wait(i) ==
    /\ kCalls[i].kind # "Query"
    /\ kCalls[i].pc = "scan"
    /\ kProcs[ProcOf(i)].state = "exited"
    /\ kCalls[i].scanned = Len(kProcs[ProcOf(i)].out)
    /\ kChans' = IF kProcs[ProcOf(i)].exit # 0
                 THEN [kChans EXCEPT ![ChanOf(i)].ebuf =
                          Append(@, ExecutionError("command failed", kProcs[ProcOf(i)].exit))]
                 ELSE kChans
    /\ kCalls' = [kCalls EXCEPT ![i].pc = "closeErr"]
    /\ UNCHANGED kProcs
    /\ UNCHANGED <<streamVars, collectVars, queryVars, spawned, launchVars, stderrVars,
                   procVars, bufVars, rtVars, ctVars, textVars>>

\* defer close(errorChan) of call i
K_CloseErr(i) ==
    /\ kCalls[i].pc = "closeErr"
    /\ kChans' = [kChans EXCEPT ![ChanOf(i)].eclosed = TRUE]
    /\ kCalls' = [kCalls EXCEPT ![i].pc = "closeRes"]
    /\ UNCHANGED kProcs
    /\ UNCHANGED <<streamVars, collectVars, queryVars, spawned, launchVars, stderrVars,
                   procVars, bufVars, rtVars, ctVars, textVars>>

\* defer close(resultChan) of call i
K_CloseRes(i) ==
    /\ kCalls[i].pc = "closeRes"
    /\ kChans' = [kChans EXCEPT ![ChanOf(i)].closed = TRUE]
    /\ kCalls' = [kCalls EXCEPT ![i].pc = "done"]
    /\ UNCHANGED kProcs
    /\ UNCHANGED <<streamVars, collectVars, queryVars, spawned, launchVars, stderrVars,
                   procVars, bufVars, rtVars, ctVars, textVars>>

\* Query call i: CombinedOutput returns the output of its subprocess, or the
\* ExecutionError of a non-zero exit
K_Finish(i) ==
    /\ kCalls[i].kind = "Query"
    /\ kCalls[i].pc = "running"
    /\ kProcs[ProcOf(i)].state = "exited"
    /\ kCalls' = IF kProcs[ProcOf(i)].exit # 0
                 THEN [kCalls EXCEPT ![i].pc = "done", ![i].caller = "returned",
                          ![i].err = ExecutionError(kProcs[ProcOf(i)].out,
                                                    kProcs[ProcOf(i)].exit)]
                 ELSE [kCalls EXCEPT ![i].pc = "done", ![i].caller = "returned",
                          ![i].got = kProcs[ProcOf(i)].out]
    /\ UNCHANGED <<kProcs, kChans>>
    /\ UNCHANGED <<streamVars, collectVars, queryVars, spawned, launchVars, stderrVars,
                   procVars, bufVars, rtVars, ctVars, textVars>>

\* the caller of streaming call i (for QueryCollectMessages its select
\* loop) receives a value from the call's result channel
K_RecvResult(i) ==
    /\ kCalls[i].kind # "Query"
    /\ kCalls[i].caller = "waiting"
    /\ Len(kChans[ChanOf(i)].buf) > 0
    /\ kCalls' = [kCalls EXCEPT ![i].got = Append(@, Head(kChans[ChanOf(i)].buf))]
    /\ kChans' = [kChans EXCEPT ![ChanOf(i)].buf = Tail(@)]
    /\ UNCHANGED kProcs
    /\ UNCHANGED <<streamVars, collectVars, queryVars, spawned, launchVars, stderrVars,
                   procVars, bufVars, rtVars, ctVars, textVars>>

\* the caller of streaming call i receives the error from the call's error
\* channel; QueryCollectMessages returns it
K_RecvError(i) ==
    /\ kCalls[i].kind # "Query"
    /\ kCalls[i].caller = "waiting"
    /\ Len(kChans[ChanOf(i)].ebuf) > 0
    /\ kCalls' = [kCalls EXCEPT ![i].err = Head(kChans[ChanOf(i)].ebuf),
                                ![i].caller = IF kCalls[i].kind = "QueryCollectMessages"
                                              THEN "returned" ELSE @]
    /\ kChans' = [kChans EXCEPT ![ChanOf(i)].ebuf = Tail(@)]
    /\ UNCHANGED kProcs
    /\ UNCHANGED <<streamVars, collectVars, queryVars, spawned, launchVars, stderrVars,
                   procVars, bufVars, rtVars, ctVars, textVars>>

\* the caller of streaming call i finds the result channel closed and empty:
\* QueryCollectMessages returns its response, another caller stops once it
\* has also taken the error
K_ResultClosed(i) ==
    /\ kCalls[i].kind # "Query"
    /\ kCalls[i].caller = "waiting"
    /\ kChans[ChanOf(i)].closed
    /\ Len(kChans[ChanOf(i)].buf) = 0
    /\ kCalls[i].kind = "QueryCollectMessages" \/ Len(kChans[ChanOf(i)].ebuf) = 0
    /\ kCalls' = [kCalls EXCEPT ![i].caller = "returned"]
    /\ UNCHANGED <<kProcs, kChans>>
    /\ UNCHANGED <<streamVars, collectVars, queryVars, spawned, launchVars, stderrVars,
                   procVars, bufVars, rtVars, ctVars, textVars>>

NextCalls ==
    \E i \in Calls :
        \/ K_Launch(i) \/ KProc_Write(i) \/ KProc_Exit(i)
        \/ K_Scan(i) \/ K_Wait(i) \/ K_CloseErr(i) \/ K_CloseRes(i) \/ K_Finish(i)
        \/ K_RecvResult(i) \/ K_RecvError(i) \/ K_ResultClosed(i)

SpecCalls == InitCalls /\ [][NextCalls]_vars

-----------------------------------------------------------------------------
(* A Message serialized with ToJSON and parsed back with FromJSON *)

\* no client has been constructed and no call is running
NoCall ==
    /\ fsDocDir = "dir"
    /\ config = NewRAGConfig("docs")
    /\ client = NoClient
    /\ newErr = Nil
    /\ QueryIdle
    /\ spawned = 0
    /\ op = "none"
    /\ consumer = "none"
    /\ pc = "idle"
    /\ StreamIdle
    /\ NoCommand
    /\ goos = "linux"

EventTypes == {"start", "stage", "content", "contexts", "end", "custom", ""}
Payloads ==
    {NilData, EmptyMap, [content |-> Str("a")],
     [contexts |-> Arr(<<Str("x"), Num(7)>>)],
     [metadata |-> Obj([model |-> Str("m")]), tokens |-> Tokens(3, 4), note |-> Null]}

\* messages as FromJSON fills them or as a program builds them from decoded
\* JSON values
RoundTripMessages ==
    {[EventType |-> e, Timestamp |-> t, Data |-> d, RawJSON |-> L_Blank] :
        e \in EventTypes, t \in {TS, TS_Frac, Now}, d \in Payloads}

InitRoundTrip ==
    /\ NoCall
    /\ BufferIdle /\ CountIdle /\ TextIdle /\ ConcIdle
    /\ rtpc = "built"
    /\ rtMsg \in RoundTripMessages
    /\ rtLine = <<>>
    /\ rtBack = <<>>

\* jsonStr, _ := m.ToJSON()
Message_ToJSON ==
    /\ rtpc = "built"
    /\ rtLine' = ToJSON(rtMsg)
    /\ rtpc' = "serialized"
    /\ UNCHANGED <<rtMsg, rtBack, bufVars, ctVars, textVars>>
    /\ UNCHANGED <<streamVars, collectVars, queryVars, spawned, launchVars, stderrVars,
                   procVars>>
    /\ UNCHANGED concVars

\* fresh := &Message{}; err := fresh.FromJSON(jsonStr)
Message_FromJSON ==
    /\ rtpc = "serialized"
    /\ rtBack' = FromJSON(rtLine)
    /\ rtpc' = "parsed"
    /\ UNCHANGED <<rtMsg, rtLine, bufVars, ctVars, textVars>>
    /\ UNCHANGED <<streamVars, collectVars, queryVars, spawned, launchVars, stderrVars,
                   procVars>>
    /\ UNCHANGED concVars

NextRoundTrip == Message_ToJSON \/ Message_FromJSON

SpecRoundTrip == InitRoundTrip /\ [][NextRoundTrip]_vars

-----------------------------------------------------------------------------
(* CountTokens *)

CountDefaultTimeout == 60

\* encoding/json storing the value under key k into an int field: an absent
\* key or a null leaves the zero value, anything but a number is a type error
UnmarshalInt(o, k) ==
    IF ~Has(o, k) \/ o[k].t = "null" THEN [ok |-> TRUE, v |-> 0]
    ELSE IF o[k].t = "num" THEN [ok |-> TRUE, v |-> o[k].n]
    ELSE [ok |-> FALSE, v |-> 0]

\* the same for a string field
UnmarshalString(o, k) ==
    IF ~Has(o, k) \/ o[k].t = "null" THEN [ok |-> TRUE, v |-> ""]
    ELSE IF o[k].t = "str" THEN [ok |-> TRUE, v |-> o[k].s]
    ELSE [ok |-> FALSE, v |-> ""]

\* one element of "files" into a TokenCountFileResult
UnmarshalFile(v) ==
    IF v.t = "null"
    THEN [ok |-> TRUE, v |-> [File |-> "", Characters |-> 0, Tokens |-> 0]]
    ELSE IF v.t # "obj"
    THEN [ok |-> FALSE, v |-> [File |-> "", Characters |-> 0, Tokens |-> 0]]
    ELSE LET f == UnmarshalString(v.o, "file")
             c == UnmarshalInt(v.o, "characters")
             t == UnmarshalInt(v.o, "tokens")
         IN [ok |-> f.ok /\ c.ok /\ t.ok,
             v |-> [File |-> f.v, Characters |-> c.v, Tokens |-> t.v]]

\* "files" into []TokenCountFileResult
UnmarshalFiles(o) ==
    IF ~Has(o, "files") \/ o["files"].t = "null" THEN [ok |-> TRUE, v |-> <<>>]
    ELSE IF o["files"].t # "arr" THEN [ok |-> FALSE, v |-> <<>>]
    ELSE LET a == o["files"].a
         IN [ok |-> \A i \in 1..Len(a) : UnmarshalFile(a[i]).ok,
             v |-> [i \in 1..Len(a) |-> UnmarshalFile(a[i]).v]]

ParseFailure == [result |-> NoResult, err |-> RAGError("Failed to parse JSON output")]

\* parseTokenCountJsonOutput: json.Unmarshal into the anonymous struct; only
\* an Unmarshal error is reported
parseTokenCountJsonOutput(output) ==
    IF output.body.t # "json" THEN ParseFailure
    ELSE IF output.body.v.t = "null"
    THEN [result |-> [nil |-> FALSE, Files |-> <<>>, TotalCharacters |-> 0,
                      TotalTokens |-> 0, RawOutput |-> output],
          err |-> Nil]
    ELSE IF output.body.v.t # "obj" THEN ParseFailure
    ELSE LET o == output.body.v.o
             files == UnmarshalFiles(o)
             chars == UnmarshalInt(o, "totalCharacters")
             tokens == UnmarshalInt(o, "totalTokens")
         IN IF files.ok /\ chars.ok /\ tokens.ok
            THEN [result |-> [nil |-> FALSE, Files |-> files.v,
                              TotalCharacters |-> chars.v, TotalTokens |-> tokens.v,
                              RawOutput |-> output],
                  err |-> Nil]
            ELSE ParseFailure

\* &TokenCountOptions{...} as the caller holds it
CountOptions(tokenizer, timeout, envs) ==
    [nil |-> FALSE, TokenizerPath |-> tokenizer, Timeout |-> timeout, Envs |-> envs]

CountOptionValues ==
    {NoOptions, CountOptions("", 0, EmptyMap), CountOptions("tok.json", 5, EmptyMap),
     CountOptions("", 0, [K |-> "v"])}

FileResult(f, c, t) == Obj([file |-> Str(f), characters |-> Num(c), tokens |-> Num(t)])

\* what the counting subprocess may have printed when it exits
CountOutputs ==
    {Line(0, EmptyBody),
     Line(0, TextBody),
     Line(1, JsonBody(Obj([files |-> Arr(<<FileResult("f", 10, 3)>>),
                           totalCharacters |-> Num(10), totalTokens |-> Num(3)]))),
     Line(0, JsonBody(Obj([files |-> Arr(<<FileResult("f", 10, 3)>>),
                           totalCharacters |-> Num(10), totalTokens |-> Num(3),
                           version |-> Str("1")]))),
     Line(0, JsonBody(Obj(EmptyMap))),
     Line(0, JsonBody(Null)),
     Line(0, JsonBody(Arr(<<>>))),
     Line(0, JsonBody(Obj([totalTokens |-> Str("3")]))),
     Line(0, JsonBody(Obj([files |-> Arr(<<Obj([file |-> Str("f")])>>),
                           totalCharacters |-> Num(10), totalTokens |-> Num(3)]))),
     Line(0, JsonBody(Obj([error |-> Str("no such file")])))}

InitCount ==
    /\ NoCall
    /\ BufferIdle /\ RoundTripIdle /\ TextIdle /\ ConcIdle
    /\ ctpc = "call"
    /\ ctOptions \in CountOptionValues
    /\ ctTimeout = 0
    /\ ctArgv = <<>>
    /\ ctEnv = <<>>
    /\ ctProc = "none"
    /\ ctExit = 0
    /\ ctOutput = <<>>
    /\ ctResult = NoResult
    /\ ctErr = Nil

\* CountTokens up to CombinedOutput: the defaults (written into the caller's
\* record when its Timeout is 0), the command line, the environment, and the
\* start of the subprocess, which may fail
CT_Begin ==
    /\ ctpc = "call"
    /\ LET opts == IF ctOptions.nil THEN CountOptions("", CountDefaultTimeout, EmptyMap)
                   ELSE IF ctOptions.Timeout = 0
                        THEN [ctOptions EXCEPT !.Timeout = CountDefaultTimeout]
                        ELSE ctOptions
       IN /\ ctOptions' = IF ctOptions.nil THEN ctOptions ELSE opts
          /\ ctTimeout' = opts.Timeout
          /\ ctArgv' = <<"auto-coder.rag", "tools", "count", "--file", "f.xlsx",
                         "--output_format", "json">>
                       \o (IF opts.TokenizerPath # ""
                           THEN <<"--tokenizer_path", opts.TokenizerPath>> ELSE <<>>)
          /\ ctEnv' = [inherited |-> [i \in DOMAIN Environ |-> JoinEq(Environ[i])],
                       appended |-> {k \o "=" \o opts.Envs[k] : k \in DOMAIN opts.Envs}]
    /\ \/ /\ ctProc' = "running"
          /\ ctpc' = "running"
          /\ UNCHANGED ctErr
       \/ /\ ctErr' = RAGError("Error executing token count")
          /\ ctpc' = "returned"
          /\ UNCHANGED ctProc
    /\ UNCHANGED <<ctExit, ctOutput, ctResult, bufVars, rtVars, textVars>>
    /\ UNCHANGED <<streamVars, collectVars, queryVars, spawned, launchVars, stderrVars,
                   procVars>>
    /\ UNCHANGED concVars

\* the counting subprocess exits, having printed its output
CTProc_Exit ==
    /\ ctProc = "running"
    /\ ctProc' = "exited"
    /\ \E out \in CountOutputs : ctOutput' = out
    /\ \E code \in ExitCodes : ctExit' = code
    /\ UNCHANGED <<ctpc, ctOptions, ctTimeout, ctArgv, ctEnv, ctResult, ctErr, bufVars, rtVars,
                   textVars>>
    /\ UNCHANGED <<streamVars, collectVars, queryVars, spawned, launchVars, stderrVars,
                   procVars>>
    /\ UNCHANGED concVars

\* the context deadline passes and exec kills the subprocess
CT_Kill ==
    /\ ctProc = "running"
    /\ ctProc' = "killed"
    /\ \E out \in {Line(0, EmptyBody), Line(0, TextBody)} : ctOutput' = out
    /\ ctExit' = -1
    /\ UNCHANGED <<ctpc, ctOptions, ctTimeout, ctArgv, ctEnv, ctResult, ctErr, bufVars, rtVars,
                   textVars>>
    /\ UNCHANGED <<streamVars, collectVars, queryVars, spawned, launchVars, stderrVars,
                   procVars>>
    /\ UNCHANGED concVars

\* CombinedOutput returns: an error with ProcessState set gives the
\* ExecutionError, no error the parse of the trimmed output
CT_Finish ==
    /\ ctpc = "running"
    /\ ctProc \in {"exited", "killed"}
    /\ IF ctProc = "killed" \/ ctExit # 0
       THEN /\ ctResult' = NoResult
            /\ ctErr' = ExecutionError(ctOutput, ctExit)
       ELSE LET parsed == parseTokenCountJsonOutput(TrimSpace(ctOutput))
            IN /\ ctResult' = parsed.result
               /\ ctErr' = parsed.err
    /\ ctpc' = "returned"
    /\ UNCHANGED <<ctOptions, ctTimeout, ctArgv, ctEnv, ctProc, ctExit, ctOutput, bufVars, rtVars,
                   textVars>>
    /\ UNCHANGED <<streamVars, collectVars, queryVars, spawned, launchVars, stderrVars,
                   procVars>>
    /\ UNCHANGED concVars

NextCount == CT_Begin \/ CTProc_Exit \/ CT_Kill \/ CT_Finish

SpecCount == InitCount /\ [][NextCount]_vars

-----------------------------------------------------------------------------
(* Clients built from text: NewRAGClientFromText and NewRAGClientFromTexts *)

\* text contents, as sequences of characters
Contents == {<<>>, <<" ">>, <<"x">>, <<" ", "x">>}
TextDocument(content, filename) == [Content |-> content, Filename |-> filename]
TextDocuments ==
    {TextDocument(c, f) : c \in Contents, f \in {"", "a.md", "doc_1.md"}}

TextCalls ==
    {[fn |-> "NewRAGClientFromText", text |-> c, filename |-> f, tempDir |-> d] :
        c \in Contents, f \in {"", "a.md"}, d \in {"", "tmp"}}
    \cup
    {[fn |-> "NewRAGClientFromTexts", texts |-> t, tempDir |-> d] :
        t \in UNION {[1..n -> TextDocuments] : n \in 0..MaxDocs}, d \in {"", "tmp"}}

\* the directory the files go to: tempDir, or the one os.MkdirTemp makes
DocPath(tempDir, pattern) == IF tempDir # "" THEN tempDir ELSE pattern \o "1"

\* the path of document i (counted from 1) of a list
TextPath(docPath, texts, i) ==
    docPath \o "/" \o (IF texts[i].Filename # "" THEN texts[i].Filename
                       ELSE "doc_" \o Itoa(i - 1) \o ".md")

\* the files after WriteFile for documents 1..k, a later write replacing an
\* earlier one to the same path
Written(docPath, texts, k) ==
    LET paths == {TextPath(docPath, texts, i) : i \in 1..k}
        last(p) == CHOOSE i \in 1..k :
                      /\ TextPath(docPath, texts, i) = p
                      /\ \A j \in (i + 1)..k : TextPath(docPath, texts, j) # p
    IN [p \in paths |-> texts[last(p)].Content]

\* NewRAGClient(docPath) on the directory just created
ClientOn(docPath) ==
    LET cfg == NewRAGConfig(docPath)
        err == validateConfig(cfg, "dir")
    IN [client |-> IF err = Nil THEN [nil |-> FALSE, config |-> cfg] ELSE NoClient,
        err |-> err]

\* a validation that looks at the first document only
ValidateTexts_FirstOnly(texts) ==
    IF Len(texts) = 0 THEN ValidationError("At least one document is required")
    ELSE IF TrimSpaceChars(texts[1].Content) = <<>>
         THEN ValidationError("Document content cannot be empty")
         ELSE Nil

\* the two checks of NewRAGClientFromTexts: a non-empty list, and no document
\* whose trimmed content is empty
ValidateTexts(texts) ==
    IF Len(texts) = 0 THEN ValidationError("At least one document is required")
    ELSE IF \E i \in 1..Len(texts) : TrimSpaceChars(texts[i].Content) = <<>>
         THEN ValidationError("Document content cannot be empty")
         ELSE Nil

InitText ==
    /\ NoCall
    /\ BufferIdle /\ RoundTripIdle /\ CountIdle /\ ConcIdle
    /\ tpc = "call"
    /\ tCall \in TextCalls
    /\ tDirs = {}
    /\ tFiles = EmptyMap
    /\ tWrites = <<>>
    /\ tClient = NoClient
    /\ tErr = Nil

\* NewRAGClientFromText: the content check, the directory, the file, the
\* client; creating the directory or writing the file may fail
NewRAGClientFromText ==
    /\ tpc = "call"
    /\ tCall.fn = "NewRAGClientFromText"
    /\ tpc' = "returned"
    /\ LET filename == IF tCall.filename = "" THEN "document.md" ELSE tCall.filename
           docPath == DocPath(tCall.tempDir, "rag_text_")
           filePath == docPath \o "/" \o filename
       IN IF TrimSpaceChars(tCall.text) = <<>>
          THEN /\ tErr' = ValidationError("Text content cannot be empty")
               /\ UNCHANGED <<tDirs, tFiles, tWrites, tClient>>
          ELSE \/ /\ tErr' = RAGError("Failed to create directory")
                  /\ UNCHANGED <<tDirs, tFiles, tWrites, tClient>>
               \/ /\ tDirs' = tDirs \cup {docPath}
                  /\ tErr' = RAGError("Failed to write file")
                  /\ UNCHANGED <<tFiles, tWrites, tClient>>
               \/ /\ tDirs' = tDirs \cup {docPath}
                  /\ tFiles' = [p \in {filePath} |-> tCall.text]
                  /\ tWrites' = <<filePath>>
                  /\ tClient' = ClientOn(docPath).client
                  /\ tErr' = ClientOn(docPath).err
    /\ UNCHANGED <<tCall, bufVars, rtVars, ctVars>>
    /\ UNCHANGED <<streamVars, collectVars, queryVars, spawned, launchVars, stderrVars,
                   procVars>>
    /\ UNCHANGED concVars

\* NewRAGClientFromTexts: the checks on every document, the directory, the
\* files in order, the client; creating the directory or writing document
\* failAt may fail
NewRAGClientFromTexts ==
    /\ tpc = "call"
    /\ tCall.fn = "NewRAGClientFromTexts"
    /\ tpc' = "returned"
    /\ LET texts == tCall.texts
           docPath == DocPath(tCall.tempDir, "rag_texts_")
       IN IF ValidateTexts(texts) # Nil
          THEN /\ tErr' = ValidateTexts(texts)
               /\ UNCHANGED <<tDirs, tFiles, tWrites, tClient>>
          ELSE \/ /\ tErr' = RAGError("Failed to create directory")
                  /\ UNCHANGED <<tDirs, tFiles, tWrites, tClient>>
               \/ \E failAt \in 1..Len(texts) :
                     /\ tDirs' = tDirs \cup {docPath}
                     /\ tFiles' = Written(docPath, texts, failAt - 1)
                     /\ tWrites' = [i \in 1..(failAt - 1) |-> TextPath(docPath, texts, i)]
                     /\ tErr' = RAGError("Failed to write file")
                     /\ UNCHANGED tClient
               \/ /\ tDirs' = tDirs \cup {docPath}
                  /\ tFiles' = Written(docPath, texts, Len(texts))
                  /\ tWrites' = [i \in 1..Len(texts) |-> TextPath(docPath, texts, i)]
                  /\ tClient' = ClientOn(docPath).client
                  /\ tErr' = ClientOn(docPath).err
    /\ UNCHANGED <<tCall, bufVars, rtVars, ctVars>>
    /\ UNCHANGED <<streamVars, collectVars, queryVars, spawned, launchVars, stderrVars,
                   procVars>>
    /\ UNCHANGED concVars

NextText == NewRAGClientFromText \/ NewRAGClientFromTexts

SpecText == InitText /\ [][NextText]_vars

-----------------------------------------------------------------------------
(* Definitions the properties use *)

IsPrefix(s, t) == Len(s) <= Len(t) /\ s = SubSeq(t, 1, Len(s))

\* every value published on the result channel so far, in order
Sent == received \o resultChan

\* the producer goroutine is past its loop and its wait
ProducerReturning == pc \in {"closeErr", "closeRes", "done"}

\* a structured-event line: a JSON object whose event_type is a string
WellFormed(line) ==
    /\ line.body.t = "json"
    /\ line.body.v.t = "obj"
    /\ IsStr(line.body.v.o, "event_type")

\* the messages of the well-formed lines, in order
ExpectedMessages(lines) ==
    LET good == SelectSeq(lines, WellFormed)
    IN [i \in 1..Len(good) |-> FromJSON(TrimSpace(good[i])).msg]

\* what a streaming call publishes for the lines written
Published(lines) == IF op = "QueryStream" THEN lines ELSE ExpectedMessages(lines)

\* the published values are the written lines, in order; a channel closed
\* without a read error has carried all of them
LinesInOrder ==
    /\ IsPrefix(Sent, written)
    /\ (resultCloses > 0 /\ ~readErr /\ procState # "none") =>
           (Sent = written /\ procState = "exited")

RECURSIVE AnswerOf(_)
\* the content fragments of the content messages, concatenated in order
AnswerOf(msgs) ==
    IF Len(msgs) = 0 THEN ""
    ELSE (IF Head(msgs).EventType = "content" THEN GetContent(Head(msgs)) ELSE "")
         \o AnswerOf(Tail(msgs))

RECURSIVE ContextsOf(_)
\* the context lists of the contexts messages, concatenated in order
ContextsOf(msgs) ==
    IF Len(msgs) = 0 THEN <<>>
    ELSE (IF Head(msgs).EventType = "contexts" THEN GetContexts(Head(msgs)) ELSE <<>>)
         \o ContextsOf(Tail(msgs))

RECURSIVE SumTokens(_)
\* the token counts of every message that carries them, summed
SumTokens(msgs) ==
    IF Len(msgs) = 0 THEN [input |-> 0, generated |-> 0]
    ELSE LET t == GetTokens(Head(msgs))
             rest == SumTokens(Tail(msgs))
         IN IF t.nil THEN rest
            ELSE [input |-> t.Input + rest.input, generated |-> t.Generated + rest.generated]

\* the output is a JSON object with a files list of file/characters/tokens
\* entries, totalCharacters and totalTokens
MatchesSchema(output) ==
    /\ output.body.t = "json"
    /\ output.body.v.t = "obj"
    /\ LET o == output.body.v.o
       IN /\ IsArr(o, "files") /\ IsNum(o, "totalCharacters") /\ IsNum(o, "totalTokens")
          /\ \A i \in 1..Len(o["files"].a) :
                /\ o["files"].a[i].t = "obj"
                /\ IsStr(o["files"].a[i].o, "file")
                /\ IsNum(o["files"].a[i].o, "characters")
                /\ IsNum(o["files"].a[i].o, "tokens")

\* the input of a text constructor that must be rejected
BlankInput(call) ==
    IF call.fn = "NewRAGClientFromText"
    THEN TrimSpaceChars(call.text) = <<>>
    ELSE \/ Len(call.texts) = 0
         \/ \E i \in 1..Len(call.texts) : TrimSpaceChars(call.texts[i].Content) = <<>>

\* the five event kinds of the protocol
KnownEventTypes == {"start", "stage", "content", "contexts", "end"}

RECURSIVE Terminated(_)
\* the lines, each followed by a newline
Terminated(lines) ==
    IF Len(lines) = 0 THEN <<>>
    ELSE <<Head(lines), NewLine>> \o Terminated(Tail(lines))

\* what call i has to show is made of the output of its own subprocess: the
\* values received and on its channel are, in order, those of its own lines;
\* its error is one its own launch or its own subprocess gave; a call that
\* returned without an error has all of its subprocess's output
OwnOutcome(i) ==
    LET c == kCalls[i]
        expected == IF c.kind \in {"Query", "QueryStream"} THEN kProcs[i].out
                    ELSE ExpectedMessages(kProcs[i].out)
    IN /\ IsPrefix(c.got \o kChans[i].buf, expected)
       /\ \A e \in {c.err} \cup Range(kChans[i].ebuf) :
              \/ e = Nil
              \/ e.type = "RAGError"
              \/ /\ e.type = "ExecutionError"
                 /\ e.ExitCode = i
                 /\ c.kind = "Query" => e.Message = kProcs[i].out
       /\ (c.caller = "returned" /\ c.err = Nil) => c.got = expected

\* the step changes something of call i: its locals, its subprocess or its
\* channel pair
Touched(i) == kCalls'[i] # kCalls[i] \/ kProcs'[i] # kProcs[i] \/ kChans'[i] # kChans[i]

-----------------------------------------------------------------------------
(* Properties *)

\* C1: whenever the message stream put an error on its error channel,
\* QueryCollectMessages returns that error with Success=false and an empty
\* Answer, under every interleaving of producer and consumer.
C1_StreamErrorReturned ==
    (consumer = "QueryCollectMessages" /\ cpc = "returned" /\ Len(errSent) > 0) =>
        (retErr = errSent[1] /\ ~response.Success /\ response.Answer = "")

\* C2: what QueryStream publishes is, in order and without loss or
\* duplication, the lines the subprocess wrote (blank lines included); absent
\* a read error the closed channel has carried all of them; and once the
\* subprocess has exited the channel is closed and drained by a caller that
\* keeps receiving.
C2_LinesInOrderThenClosed ==
    /\ [](LinesInOrder)
    /\ (procState = "exited") ~>
           (resultCloses = 1 /\ resultChan = <<>> /\ (readErr \/ received = written))

C2_Witness ==
    /\ resultCloses = 1
    /\ ~readErr
    /\ Len(written) >= 2
    /\ received = written
    /\ \E i \in 1..Len(written) : written[i] = L_Blank

\* C3: on every path of QueryStream and QueryStreamMessages at most one value
\* is sent on the error channel, the send never blocks, and each channel is
\* closed exactly once, when the producer goroutine ends.
C3_ErrorChannelDiscipline ==
    /\ Len(errSent) <= 1
    /\ ~errSendBlocked
    /\ errorCloses = (IF pc \in {"closeRes", "done"} THEN 1 ELSE 0)
    /\ resultCloses = (IF pc = "done" THEN 1 ELSE 0)

C3_Witness ==
    /\ pc = "done"
    /\ readErr
    /\ Len(errSent) = 1
    /\ scanned >= 1

\* C4: a non-zero exit status puts an ExecutionError with exactly that exit
\* code on the error channel, and only after every line of standard output
\* has been published; a line-read error puts a RAGError there instead, and
\* nothing is published after it.
C4_ErrorKindAndOrder ==
    /\ (ProducerReturning /\ ProcessState.set /\ ProcessState.ExitCode # 0) =>
           (Len(errSent) = 1 /\ errSent[1].type = "ExecutionError")
    /\ \A i \in 1..Len(errSent) :
           errSent[i].type = "ExecutionError" =>
               /\ procState = "exited"
               /\ exitStatus # 0
               /\ errSent[i].ExitCode = exitStatus
               /\ scanned = Len(written)
               /\ Sent = Published(written)
    /\ readErr =>
           /\ errSent = <<RAGError("read output failed")>>
           /\ Len(Sent) = sentAtReadErr

C4_Witness ==
    /\ pc = "done"
    /\ errSent = <<ExecutionError("command failed", 2)>>
    /\ Len(written) >= 2
    /\ Len(Sent) >= 1

\* C5: Query returns, for a subprocess that exited non-zero, an
\* ExecutionError with that exit code and the untrimmed combined output as
\* Message; for a launch failure a RAGError; and never an answer with an error.
C5_QueryErrors ==
    qpc = "returned" =>
        /\ (qProc = "exited" /\ qExit # 0) => qErr = ExecutionError(qOutput, qExit)
        /\ qStart = "failed" => qErr.type = "RAGError"
        /\ qErr # Nil => qAnswer = <<>>

C5_Witness ==
    /\ qpc = "returned"
    /\ qProc = "exited"
    /\ qExit = 2
    /\ qOutput = <<" ", "x">>
    /\ qErr = ExecutionError(<<" ", "x">>, 2)

\* C6: whenever the deadline of Query takes effect before the subprocess has
\* exited, Query fails with an ExecutionError, for every resolved timeout.
C6_DeadlineGivesExecutionError ==
    (qpc = "returned" /\ qExpired) => qErr.type = "ExecutionError"

\* C7: QueryStreamMessages publishes exactly the messages of the well-formed
\* lines, in order: a blank or unparsable line neither ends the stream early
\* nor puts an error on the error channel.
C7_MalformedLinesSkipped ==
    op = "QueryStreamMessages" =>
        /\ IsPrefix(Sent, ExpectedMessages(written))
        /\ (ProducerReturning /\ ~readErr /\ procState # "none") =>
               Sent = ExpectedMessages(written)
        /\ Len(errSent) > 0 =>
               \/ procState = "none"
               \/ readErr
               \/ ProducerReturning /\ (exitStatus # 0 \/ ~ProcessState.set)

C7_Witness ==
    /\ op = "QueryStreamMessages"
    /\ pc = "done"
    /\ errSent = <<>>
    /\ Len(written) = 3
    /\ WellFormed(written[1])
    /\ ~WellFormed(written[2])
    /\ WellFormed(written[3])
    /\ Len(received) = 2

\* C8: on an error-free stream QueryCollectMessages returns Success=true,
\* Answer = the content fragments of the content messages concatenated in
\* order, Contexts = the context lists of the contexts messages concatenated
\* in order; other messages contribute nothing.
C8_AnswerAndContexts ==
    (consumer = "QueryCollectMessages" /\ cpc = "returned" /\ errSent = <<>>) =>
        /\ response.Success
        /\ retErr = Nil
        /\ received = ExpectedMessages(written)
        /\ response.Answer = AnswerOf(ExpectedMessages(written))
        /\ response.Contexts = ContextsOf(ExpectedMessages(written))

C8_Witness ==
    /\ consumer = "QueryCollectMessages"
    /\ cpc = "returned"
    /\ errSent = <<>>
    /\ written = <<L_ContentA, L_Other, L_ContentB>>
    /\ response.Answer = "ab"

\* C9: QueryCollectMessages sums the token counts of every message that
\* carries them, whatever its event kind, and returns the totals and the end
\* event's metadata in the aggregated response.
C9_TokensSummedAndReturned ==
    (/\ consumer = "QueryCollectMessages"
     /\ cpc = "returned"
     /\ errSent = <<>>
     /\ \E i \in 1..Len(received) : received[i].EventType = "end") =>
        /\ tokensInfo = SumTokens(received)
        /\ Has(response, "Metadata")

\* C10: when the document directory does not exist, construction fails with a
\* ValidationError, returns no client and spawns no subprocess.
C10_MissingDocDirRejected ==
    (qpc # "new" /\ fsDocDir = "absent") =>
        /\ newErr.type = "ValidationError"
        /\ client = NoClient
        /\ spawned = 0
        /\ qpc = "failed"

C10_Witness ==
    /\ qpc = "failed"
    /\ fsDocDir = "absent"
    /\ config.ProductMode = "pro"

-----------------------------------------------------------------------------
(* Reading an argument vector and an environment *)

HasArg(a, flag) == \E i \in 1..Len(a) : a[i] = flag
CountArg(a, flag) == Cardinality({i \in 1..Len(a) : a[i] = flag})
IndexOf(a, flag) == CHOOSE i \in 1..Len(a) : a[i] = flag
\* the flag is present, once, followed by the value
HasArgValue(a, flag, value) ==
    /\ CountArg(a, flag) = 1
    /\ IndexOf(a, flag) < Len(a)
    /\ a[IndexOf(a, flag) + 1] = value

\* the value that follows the flag
ArgValue(a, flag) == a[IndexOf(a, flag) + 1]

\* the plain decimal numerals that denote h hundredths, h >= 0: two
\* fractional digits, one when the second is 0, none when h is whole
Denoting(h) ==
    {ToString(h \div 100) \o "." \o ToString((h % 100) \div 10) \o ToString(h % 10)}
    \cup (IF h % 10 = 0
          THEN {ToString(h \div 100) \o "." \o ToString((h % 100) \div 10)} ELSE {})
    \cup (IF h % 100 = 0 THEN {ToString(h \div 100)} ELSE {})

\* the value a field resolves to: the per-call value when set, else the
\* session value
ResolvedModel(cfg, o) ==
    IF ~o.nil /\ o.Model # "" THEN o.Model ELSE cfg.Model
ResolvedModelFile(cfg, o) ==
    IF ~o.nil /\ o.ModelFile # "" THEN o.ModelFile ELSE cfg.ModelFile
ResolvedAgentic(cfg, o) ==
    IF ~o.nil /\ ~o.Agentic.nil THEN o.Agentic.v ELSE cfg.Agentic
ResolvedProductMode(cfg, o) ==
    IF ~o.nil /\ o.ProductMode # "" THEN o.ProductMode ELSE cfg.ProductMode
ResolvedTimeout(cfg, o) ==
    IF ~o.nil /\ ~o.Timeout.nil THEN o.Timeout.v ELSE cfg.Timeout

\* the options record the running operation hands to buildCommand
PassedOptions ==
    IF op = "QueryStreamMessages" THEN QSM_Options(options)
    ELSE IF options.nil THEN OptionsWithFormat("text") ELSE options

\* the caller's options with only the output format replaced
WithStreamJson(o) ==
    IF o.nil THEN OptionsWithFormat("stream-json")
    ELSE [o EXCEPT !.OutputFormat = "stream-json"]

\* the environment the process inherits, by key
Inherited == [LANG |-> "C", HOME |-> "/h", OPTS |-> "a=b"]

\* the layered value of key k: per-call, session, UTF-8 overlay, inherited
LayeredKeys(cfg, o, os) ==
    DOMAIN Inherited \cup DOMAIN cfg.Envs
      \cup (IF ~o.nil THEN DOMAIN o.Envs ELSE {})
      \cup (IF cfg.WindowsUtf8Env /\ os = "windows" THEN DOMAIN Utf8Env ELSE {})
LayeredValue(cfg, o, os, k) ==
    IF ~o.nil /\ k \in DOMAIN o.Envs THEN o.Envs[k]
    ELSE IF k \in DOMAIN cfg.Envs THEN cfg.Envs[k]
    ELSE IF cfg.WindowsUtf8Env /\ os = "windows" /\ k \in DOMAIN Utf8Env THEN Utf8Env[k]
    ELSE Inherited[k]

\* C11: a configuration whose product mode is neither "lite" nor "pro" (the
\* empty string included) makes construction fail with a ValidationError.
C11_BadProductModeRejected ==
    (qpc # "new" /\ config.ProductMode \notin {"lite", "pro"}) =>
        /\ newErr.type = "ValidationError"
        /\ client = NoClient
        /\ qpc = "failed"

C11_Witness ==
    /\ qpc = "failed"
    /\ fsDocDir = "dir"
    /\ config.ProductMode = ""
    /\ newErr.type = "ValidationError"

C14_UnsetFormatDefaultsToText ==
    (qpc = "returned" /\ ~options.nil /\ options.OutputFormat = "") =>
        /\ qErr.type # "ValidationError"
        /\ qDeadline = "armed"

\* C13: QueryStream with options whose output format is not text, json or
\* stream-json spawns no subprocess and puts a ValidationError on its error
\* channel.
C13_StreamRejectsBadFormat ==
    (/\ op = "QueryStream"
     /\ ~options.nil
     /\ options.OutputFormat \notin {"text", "json", "stream-json"}) =>
        /\ spawned = 0
        /\ pc = "done" =>
               (Len(errSent) = 1 /\ errSent[1].type = "ValidationError")

C16_ArgumentVectorShape ==
    argv # <<>> =>
        LET cfg == client.config
            n1 == IndexOf(argv, "--rag_context_window_limit")
        IN /\ argv = buildCommand(cfg, PassedOptions)
           /\ Len(argv) >= 4
           /\ SubSeq(argv, 1, 4) = <<cfg.CommandPath, "run", "--doc_dir", cfg.DocDir>>
           /\ \A f \in {"--rag_context_window_limit", "--full_text_ratio",
                         "--segment_ratio", "--rag_doc_filter_relevance"} :
                  CountArg(argv, f) = 1
           /\ IndexOf(argv, "--full_text_ratio") = n1 + 2
           /\ IndexOf(argv, "--segment_ratio") = n1 + 4
           /\ IndexOf(argv, "--rag_doc_filter_relevance") = n1 + 6
           /\ \A f \in {"--model", "--model_file", "--output_format", "--agentic",
                         "--pro", "--lite"} :
                  HasArg(argv, f) => IndexOf(argv, f) < n1
           /\ \A f \in {"--enable_hybrid_index", "--disable_auto_window",
                         "--disable_segment_reorder"} :
                  HasArg(argv, f) => IndexOf(argv, f) > n1 + 7

C16_Witness ==
    /\ op = "QueryStreamMessages"
    /\ argv # <<>>
    /\ HasArg(argv, "--agentic")
    /\ HasArg(argv, "--model_file")
    /\ HasArg(argv, "--enable_hybrid_index")
    /\ HasArgValue(argv, "--full_text_ratio", "0.7")
    /\ HasArgValue(argv, "--rag_doc_filter_relevance", "0")

\* C17: in an argument vector --agentic is present iff the resolved agentic
\* value is true, each index flag iff its configuration flag is true, --model
\* and --model_file iff the resolved value is not empty, and --output_format
\* is present once with one value.
C17_OptionalFlags ==
    argv # <<>> =>
        LET cfg == client.config
            o == PassedOptions
        IN /\ HasArg(argv, "--agentic") <=> ResolvedAgentic(cfg, o)
           /\ HasArg(argv, "--enable_hybrid_index") <=> cfg.EnableHybridIndex
           /\ HasArg(argv, "--disable_auto_window") <=> cfg.DisableAutoWindow
           /\ HasArg(argv, "--disable_segment_reorder") <=> cfg.DisableSegmentReorder
           /\ HasArg(argv, "--model") <=> ResolvedModel(cfg, o) # ""
           /\ HasArg(argv, "--model_file") <=> ResolvedModelFile(cfg, o) # ""
           /\ \A f \in {"--agentic", "--enable_hybrid_index", "--disable_auto_window",
                         "--disable_segment_reorder", "--model", "--model_file"} :
                  CountArg(argv, f) <= 1
           /\ CountArg(argv, "--output_format") = 1
           /\ argv[IndexOf(argv, "--output_format") + 1] \in
                  {"text", "json", "xml", "stream-json"}

C17_Witness ==
    /\ argv # <<>>
    /\ config.DisableSegmentReorder
    /\ HasArg(argv, "--disable_segment_reorder")
    /\ ~HasArg(argv, "--disable_auto_window")
    /\ ~HasArg(argv, "--agentic")
    /\ ~HasArg(argv, "--model")
    /\ ~HasArg(argv, "--model_file")

\* C18: for every operation that takes per-call options, the environment of
\* the subprocess holds each key once, with the per-call value if there is
\* one, else the session value, else the UTF-8 overlay value when the overlay
\* is active, else the inherited value.
C18_EnvironmentLayered ==
    spawned > 0 =>
        /\ \A p, q \in envp : p[1] = q[1] => p = q
        /\ envp = {<<k, LayeredValue(client.config, options, goos, k)>> :
                      k \in LayeredKeys(client.config, options, goos)}

\* C19: QueryStreamMessages builds the argument vector and the environment
\* QueryStream builds for the same options with the output format replaced
\* by stream-json.
C19_MessagesBuildsAsStream ==
    (op = "QueryStreamMessages" /\ spawned > 0) =>
        /\ argv = buildCommand(client.config, WithStreamJson(options))
        /\ envp = buildEnv(client.config, WithStreamJson(options), goos)

\* C20: the ExecutionError a streaming call reports for a non-zero exit
\* carries everything the subprocess wrote to standard error (trimmed),
\* whatever the interleaving of the drain task, the producer and the wait.
C20_StderrInExecutionError ==
    \A i \in 1..Len(errSent) :
        (errSent[i].type = "ExecutionError" /\ TrimSpaceChars(stderrWritten) # <<>>) =>
            \E base \in {"command failed", "command failed (" \o argv[1] \o ")"} :
                errSent[i].Message =
                    base \o "; stderr: " \o Join(TrimSpaceChars(stderrWritten), "")

\* C21: in a streaming call the task writing the question, the task draining
\* standard error and the producer reading standard output never wait on one
\* another: again and again, every line the subprocess has written to
\* standard output so far has been delivered to a caller that keeps receiving
\* (unless a read failed), everything it has written to a piped standard
\* error has been drained (unless it has exited), and both channels are
\* closed if it has exited; even when it never reads its input.
C21_FlowsIndependent ==
    []<>(/\ readErr \/ received = Published(written)
         /\ drain # "none" => (Len(drainBuf) = Len(stderrWritten) \/ procState = "exited")
         /\ procState = "exited" => (errorCloses = 1 /\ resultCloses = 1))

C21_Witness ==
    /\ pc = "done"
    /\ procState = "exited"
    /\ ~readErr
    /\ stdinLeft > 0
    /\ stdinPipe = StdinCap
    /\ Len(received) = MaxLines
    /\ Len(stderrWritten) = MaxStderr
    /\ errorCloses = 1 /\ resultCloses = 1

C24_CountTokensErrors ==
    (ctpc = "returned" /\ ctProc = "exited") =>
        /\ ctExit # 0 => (ctResult = NoResult /\ ctErr = ExecutionError(ctOutput, ctExit))
        /\ (ctExit = 0 /\ ~MatchesSchema(ctOutput)) =>
               (ctResult = NoResult /\ ctErr.type = "RAGError")
        /\ ctErr = Nil => MatchesSchema(ctOutput)

\* C25: for empty or whitespace-only text, an empty document list, or a list
\* in which any document has empty or whitespace-only content,
\* NewRAGClientFromText and NewRAGClientFromTexts return a ValidationError
\* and no client, having created no directory and written no file.
C25_ValidatedBeforeFilesystem ==
    (tpc = "returned" /\ BlankInput(tCall)) =>
        /\ tErr.type = "ValidationError"
        /\ tClient = NoClient
        /\ tDirs = {}
        /\ tFiles = EmptyMap
        /\ tWrites = <<>>

C25_Witness ==
    /\ tpc = "returned"
    /\ tCall.fn = "NewRAGClientFromTexts"
    /\ Len(tCall.texts) = 2
    /\ tCall.texts[1].Content = <<"x">>
    /\ tCall.texts[2].Content = <<" ">>
    /\ tErr.type = "ValidationError"
    /\ tDirs = {}

\* C26: QueryStream and QueryStreamMessages bind no deadline to the
\* subprocess: whatever config.Timeout and options.Timeout are and however
\* much time has passed, no deadline is armed, the subprocess is never
\* killed, and a channel of a call that started a subprocess is closed only
\* after a read error or after the subprocess has exited and all its output
\* has been read.
C26_StreamsBindNoDeadline ==
    /\ qDeadline = "none"
    /\ procState \in {"none", "running", "exited"}
    /\ (spawned > 0 /\ (errorCloses > 0 \/ resultCloses > 0)) =>
           (readErr \/ (procState = "exited" /\ scanned = Len(written)))

C26_Witness ==
    /\ op = "QueryStreamMessages"
    /\ ~options.nil /\ options.Timeout = IntPtr(1)
    /\ config.Timeout = 1
    /\ clock = MaxClock
    /\ procState = "running"
    /\ pc = "scan"
    /\ Len(received) > 0
    /\ errorCloses = 0 /\ resultCloses = 0

\* C27: every message on the message channel of QueryStreamMessages has an
\* event type among start, stage, content, contexts and end; a line with any
\* other event_type is never delivered.
C27_OnlyKnownEventTypes ==
    op = "QueryStreamMessages" =>
        \A i \in 1..Len(resultChan) : resultChan[i].EventType \in KnownEventTypes

\* C28: whenever the producer placed an error on the error channel,
\* QueryWithBuffer returns that error, whatever case the select picks; it
\* returns a nil error only if no error was sent.
C28_BufferErrorReturned ==
    (consumer = "QueryWithBuffer" /\ bufpc = "returned") =>
        /\ Len(errSent) > 0 => bufErr = errSent[1]
        /\ bufErr = Nil => Len(errSent) = 0

\* C29: every subprocess started by QueryStream or QueryStreamMessages has
\* been waited on when the producer closes the channels, on every path, the
\* line-read-error path included.
C29_WaitedBeforeClose ==
    (spawned > 0 /\ (errorCloses > 0 \/ resultCloses > 0)) => waited

\* C30: when the stream produced no error, QueryWithBuffer returns a nil
\* error and every line of the result channel in order, each followed by a
\* single newline; it returns a nil error only after the result channel is
\* closed and empty; and once the producer has closed the channels a running
\* QueryWithBuffer returns.
C30_BufferedResult ==
    /\ []((bufpc = "returned" /\ Len(errSent) = 0) =>
             /\ bufErr = Nil
             /\ buffer = Terminated(written))
    /\ []((bufpc = "returned" /\ bufErr = Nil) =>
             (resultCloses = 1 /\ resultChan = <<>>))
    /\ [](bufpc # "idle" => buffer = Terminated(received))
    /\ (bufpc = "select" /\ resultCloses = 1) ~> (bufpc = "returned")

C30_Witness ==
    /\ bufpc = "returned"
    /\ bufErr = Nil
    /\ Len(errSent) = 0
    /\ Len(written) = MaxLines
    /\ buffer = Terminated(written)

C31_NoSendAfterErrorOrClose ==
    [][/\ (Len(errSent) > 0 \/ resultCloses > 0) =>
             Len(received') + Len(resultChan') = Len(received) + Len(resultChan)
       /\ errorCloses > 0 => (errSent' = errSent /\ ~errSendBlocked')
       /\ resultCloses' <= 1 /\ errorCloses' <= 1]_vars

C31_Witness ==
    /\ op = "QueryStreamMessages"
    /\ pc = "done"
    /\ Len(errSent) = 1
    /\ readErr
    /\ sentAtReadErr >= 1
    /\ scanned < Len(written)
    /\ Len(received) + Len(resultChan) = sentAtReadErr
\* C32: no step of CountTokens modifies the caller-supplied options record:
\* every field of it keeps its value from the call to the return.
C32_OptionsUnmodified ==
    [][ctOptions' = ctOptions]_vars

\* C33: every argument vector built on a constructed client holds exactly
\* one of --pro and --lite, and it is the flag of the resolved product mode
\* (the per-call mode when set, else the session mode).
C33_ExactlyOneModeFlag ==
    argv # <<>> =>
        LET m == ResolvedProductMode(client.config, options)
        IN /\ CountArg(argv, "--pro") + CountArg(argv, "--lite") = 1
           /\ HasArg(argv, "--pro") <=> m = "pro"
           /\ HasArg(argv, "--lite") <=> m = "lite"

\* C34: after a successful NewRAGClientFromTexts the document directory of
\* the client holds one file per input document, the file of each document
\* (its filename, or doc_<index>.md when it has none) holds that document's
\* content, and no two documents of the call were written to the same path.
C34_OneFilePerDocument ==
    (tpc = "returned" /\ tCall.fn = "NewRAGClientFromTexts" /\ tErr = Nil) =>
        LET texts == tCall.texts
            dir == tClient.config.DocDir
            name(i) == IF texts[i].Filename # "" THEN texts[i].Filename
                       ELSE "doc_" \o ToString(i - 1) \o ".md"
        IN /\ Cardinality(DOMAIN tFiles) = Len(texts)
           /\ \A i \in 1..Len(texts) :
                  /\ (dir \o "/" \o name(i)) \in DOMAIN tFiles
                  /\ tFiles[dir \o "/" \o name(i)] = texts[i].Content
           /\ \A i, j \in 1..Len(tWrites) : tWrites[i] = tWrites[j] => i = j

\* C35: in every argument vector the value after each numeric flag denotes
\* the configured number: the context window limit, the full-text ratio, the
\* segment ratio and the relevance threshold, whatever value is configured.
C35_NumericValuesExact ==
    argv # <<>> =>
        LET cfg == client.config
        IN /\ ArgValue(argv, "--rag_context_window_limit")
                  \in Denoting(100 * cfg.RagContextWindowLimit)
           /\ ArgValue(argv, "--full_text_ratio") \in Denoting(cfg.FullTextRatio)
           /\ ArgValue(argv, "--segment_ratio") \in Denoting(cfg.SegmentRatio)
           /\ ArgValue(argv, "--rag_doc_filter_relevance")
                  \in Denoting(cfg.RagDocFilterRelevance)

====
